---- MODULE Spec2Model ----
(***************************************************************************)
(* Model of the test platform's persistence and service layer:             *)
(* database/crud.py, services/test_service.py,                             *)
(* services/attempt_service.py, utils/validators.py and the schema of      *)
(* database/models.py.  The database is three tables of rows (tests,       *)
(* questions, attempts) plus the registered users; every service call is   *)
(* one action that runs the whole handler and leaves its outcome (return   *)
(* value or raised exception) in `result`.                                 *)
(*                                                                         *)
(* Strings are sequences of one-character strings so that strip(), upper() *)
(* and str()/int() are computed, not assumed.                              *)
(***************************************************************************)
EXTENDS Integers, Sequences, FiniteSets, TLC

VARIABLES
    users,          \* rows of table users
    tests,          \* rows of table tests
    questions,      \* rows of table questions
    attempts,       \* rows of table attempts
    nextTestId,     \* next value of the tests.id sequence
    nextQuestionId, \* next value of the questions.id sequence
    nextAttemptId,  \* next value of the attempts.id sequence
    result,         \* outcome of the last service / CRUD call
    nextUserId,     \* next value of the users.id sequence
    ai,             \* call frame of AIService: position, arguments, loop variables
    requests,       \* calls of concurrent requests that stand between two statements
    session,        \* st.session_state of one browser session
    clock,          \* time.time(), in seconds
    allowed         \* per key, the calls allow_action let through: the time of the
                    \* first one of the running minute and their number

vars == <<users, tests, questions, attempts, nextTestId, nextQuestionId, nextAttemptId, result,
          nextUserId, ai, requests, session, clock,
          allowed>>

db == <<users, tests, questions, attempts, nextTestId, nextQuestionId, nextAttemptId>>

\* What the authoring and attempt operations never touch
auth == <<nextUserId>>

\* What only AIService touches
generation == <<ai>>

\* What only the pages and the requests under way touch
web == <<requests, session, clock, allowed>>

----------------------------------------------------------------------------
(* Bounds of the model *)

MaxTests == 2
MaxQuestions == 2
MaxAttempts == 1
KeyLen == 1
OneTest == 1
OneQuestion == 1
ManyAttempts == 2

----------------------------------------------------------------------------
(* Python values *)

\* Optional values: None is the empty set, a present value v is {v}.
None == {}
Some(v) == {v}
Get(o) == CHOOSE v \in o : TRUE

RECURSIVE GCD(_, _)
GCD(a, b) == IF b = 0 THEN a ELSE GCD(b, a % b)

\* A Python float that is the quotient (n / d) * 100.0, kept exact as a
\* reduced fraction; 0.0 is 0/1.
Percent(n, d) ==
    LET g == GCD(100 * n, d)
    IN  [num |-> (100 * n) \div g, den |-> d \div g]

ZeroScore == [num |-> 0, den |-> 1]

----------------------------------------------------------------------------
(* Strings *)

Whitespace == {" ", "\t"}
\* "NUL" stands for the character 0x00, which is a control character and no
\* whitespace; the tab is both
ControlChars == {"\t", "NUL"}

UpperChar(c) ==
    CASE c = "a" -> "A"
      [] c = "b" -> "B"
      [] OTHER -> c

upper(s) == [i \in 1..Len(s) |-> UpperChar(s[i])]

LowerChar(c) ==
    CASE c = "A" -> "a"
      [] c = "B" -> "b"
      [] c = "H" -> "h"
      [] OTHER -> c

lower(s) == [i \in 1..Len(s) |-> LowerChar(s[i])]

RECURSIVE lstrip(_)
lstrip(s) == IF s # <<>> /\ Head(s) \in Whitespace THEN lstrip(Tail(s)) ELSE s

RECURSIVE rstrip(_)
rstrip(s) ==
    IF s # <<>> /\ s[Len(s)] \in Whitespace THEN rstrip(SubSeq(s, 1, Len(s) - 1)) ELSE s

strip(s) == rstrip(lstrip(s))

RECURSIVE RemoveControl(_)
RemoveControl(s) ==
    IF s = <<>> THEN <<>>
    ELSE IF Head(s) \in ControlChars THEN RemoveControl(Tail(s))
    ELSE <<Head(s)>> \o RemoveControl(Tail(s))

Digits == <<"0", "1", "2", "3", "4", "5", "6", "7", "8", "9">>

DigitChars == {Digits[i] : i \in 1..10}

DigitValue(c) == (CHOOSE i \in 1..10 : Digits[i] = c) - 1

RECURSIVE NatToStr(_)
NatToStr(n) ==
    IF n < 10 THEN <<Digits[n + 1]>> ELSE NatToStr(n \div 10) \o <<Digits[(n % 10) + 1]>>

\* str(k) for an int k
str(k) == IF k < 0 THEN <<"-">> \o NatToStr(0 - k) ELSE NatToStr(k)

\* str.isdigit(): non-empty and every character a digit
isdigit(s) == s # <<>> /\ \A i \in 1..Len(s) : s[i] \in DigitChars

RECURSIVE DigitsToNat(_)
DigitsToNat(s) ==
    IF s = <<>> THEN 0 ELSE 10 * DigitsToNat(SubSeq(s, 1, Len(s) - 1)) + DigitValue(s[Len(s)])

\* int(s) for a string of digits, optionally signed
int(s) == IF s # <<>> /\ Head(s) = "-" THEN 0 - DigitsToNat(Tail(s)) ELSE DigitsToNat(s)

----------------------------------------------------------------------------
(* Exceptions and results *)

ValidationError == "ValidationError"
DatabaseError == "DatabaseError"
OK == "ok"

Raise(op, cls, msg) == [op |-> op, cls |-> cls, msg |-> msg, value |-> None]
Return(op, value) == [op |-> op, cls |-> OK, msg |-> "", value |-> value]

\* The call ended without a commit: it raised, or it only read.
NoCommit(r) == result' = r /\ UNCHANGED db

----------------------------------------------------------------------------
(* utils/validators.py *)

TitleMaxLength == 255
DescriptionMaxLength == 1000

sanitize_string(text, max_length) ==
    LET cleaned == RemoveControl(strip(text))
    IN  IF Len(cleaned) > max_length
        THEN [ok |-> FALSE, val |-> <<>>]
        ELSE [ok |-> TRUE, val |-> cleaned]

\* sanitize_string called on its own; text is None when it is not a str.
\* The outcome is kept together with the arguments of the call.
sanitize_string_call(text, max_length) ==
    /\ LET op == "sanitize_string"
           r == IF text = None
                THEN Raise(op, ValidationError, "Value must be a string")
                ELSE IF sanitize_string(Get(text), max_length).ok
                THEN Return(op, sanitize_string(Get(text), max_length).val)
                ELSE Raise(op, ValidationError, "Text must be at most max_length characters")
       IN  result' = [op |-> op, cls |-> r.cls, msg |-> r.msg, value |-> r.value,
                      text |-> text, max_length |-> max_length]
    /\ UNCHANGED <<db, auth, generation, web>>

validate_integer(value, min_val) ==
    IF value < min_val THEN [ok |-> FALSE, val |-> value] ELSE [ok |-> TRUE, val |-> value]

----------------------------------------------------------------------------
(* database/models.py and database/crud.py *)

UserIds == {u.id : u \in users}
TestIds == {t.id : t \in tests}

TestCRUD_get_by_id(test_id) == {t \in tests : t.id = test_id}

TestCRUD_get_by_access_key(access_key) == {t \in tests : t.access_key = access_key}

\* The insert without the unique index on access_key
TestCRUD_create_accepts_NoUnique(row) == row.teacher_id \in UserIds

\* INSERT INTO tests: the unique index on access_key and the foreign key
\* teacher_id -> users.id reject the row (IntegrityError).
TestCRUD_create_accepts(row) ==
    /\ row.teacher_id \in UserIds
    /\ \A t \in tests : t.access_key # row.access_key

\* TestCRUD_update without its WHERE clause
TestCRUD_update_AllRows(rows, test_id, updates) ==
    { [f \in DOMAIN t |-> IF f \in DOMAIN updates THEN updates[f] ELSE t[f]] : t \in rows }

\* UPDATE tests SET ... WHERE id = test_id
TestCRUD_update(rows, test_id, updates) ==
    { IF t.id = test_id
      THEN [f \in DOMAIN t |-> IF f \in DOMAIN updates THEN updates[f] ELSE t[f]]
      ELSE t : t \in rows }

\* DELETE FROM tests WHERE id = test_id, with ON DELETE CASCADE of
\* questions.test_id and attempts.test_id
TestCRUD_delete_tests(test_id) == {t \in tests : t.id # test_id}
TestCRUD_delete_questions(test_id) == {q \in questions : q.test_id # test_id}

\* The delete without the cascade to attempts
TestCRUD_delete_attempts_NoCascade(test_id) == attempts

TestCRUD_delete_attempts(test_id) == {a \in attempts : a.test_id # test_id}

\* The rows of a test in ORDER BY "order" ASC; rows of equal order are taken
\* in id order.
Before(q1, q2) == q1.order < q2.order \/ (q1.order = q2.order /\ q1.id < q2.id)

RECURSIVE SortByOrder(_)
SortByOrder(rows) ==
    IF rows = {} THEN <<>>
    ELSE LET first == CHOOSE q \in rows : \A r \in rows \ {q} : Before(q, r)
         IN  <<first>> \o SortByOrder(rows \ {first})

QuestionCRUD_get_test_questions(test_id) ==
    SortByOrder({q \in questions : q.test_id = test_id})

QuestionCRUD_create_accepts(row) == row.test_id \in TestIds

QuestionCRUD_delete_rows(question_id) == {q \in questions : q.id # question_id}

AttemptCRUD_get_by_id(attempt_id) == {a \in attempts : a.id = attempt_id}

\* IsCorrect with the upper bound of the range check off by one
IsCorrect_StrictUpper(q, answers_dict) ==
    /\ q.id \in DOMAIN answers_dict
    /\ LET sel == answers_dict[q.id]
       IN  sel \in Int /\ 0 <= sel /\ sel < 3 /\ sel = q.correct_answer

\* The scoring loop of AttemptCRUD.create
IsCorrect(q, answers_dict) ==
    /\ q.id \in DOMAIN answers_dict
    /\ LET sel == answers_dict[q.id]
       IN  sel \in Int /\ 0 <= sel /\ sel <= 3 /\ sel = q.correct_answer

AttemptCRUD_score(test_id, answers_dict) ==
    LET qs == QuestionCRUD_get_test_questions(test_id)
        total == Len(qs)
        correct == Cardinality({i \in 1..total : IsCorrect(qs[i], answers_dict)})
    IN  IF total = 0 THEN ZeroScore ELSE Percent(correct, total)

\* {str(k): int(v) for k, v in answers_dict.items()}
AttemptCRUD_normalize(answers_dict) ==
    [s \in {str(k) : k \in DOMAIN answers_dict} |->
        answers_dict[CHOOSE k \in DOMAIN answers_dict : str(k) = s]]

\* The row without its completion timestamp
AttemptCRUD_row_NoTimestamp(test_id, student_id, answers_dict, utcnow) ==
    [id |-> nextAttemptId,
     test_id |-> test_id,
     student_id |-> student_id,
     answers |-> AttemptCRUD_normalize(answers_dict),
     score |-> AttemptCRUD_score(test_id, answers_dict),
     is_submitted |-> 1,
     completed_at |-> None]

AttemptCRUD_row(test_id, student_id, answers_dict, utcnow) ==
    [id |-> nextAttemptId,
     test_id |-> test_id,
     student_id |-> student_id,
     answers |-> AttemptCRUD_normalize(answers_dict),
     score |-> AttemptCRUD_score(test_id, answers_dict),
     is_submitted |-> 1,
     completed_at |-> Some(utcnow)]

AttemptCRUD_create_accepts(row) ==
    row.test_id \in TestIds /\ row.student_id \in UserIds

----------------------------------------------------------------------------
(* services/test_service.py *)

TestTypes == {"pre", "post"}
Difficulties == {"easy", "medium", "hard"}

\* create_test with the row stored as already published
create_test_row_Published(teacher_id, title, description, test_type, access_key) ==
    [id |-> nextTestId,
     title |-> sanitize_string(title, TitleMaxLength).val,
     description |-> IF description = None \/ Get(description) = <<>>
                     THEN None
                     ELSE Some(sanitize_string(Get(description), DescriptionMaxLength).val),
     teacher_id |-> teacher_id,
     test_type |-> test_type,
     access_key |-> access_key,
     is_published |-> 1]

\* The row create_test hands to TestCRUD.create
create_test_row(teacher_id, title, description, test_type, access_key) ==
    [id |-> nextTestId,
     title |-> sanitize_string(title, TitleMaxLength).val,
     description |-> IF description = None \/ Get(description) = <<>>
                     THEN None
                     ELSE Some(sanitize_string(Get(description), DescriptionMaxLength).val),
     teacher_id |-> teacher_id,
     test_type |-> test_type,
     access_key |-> access_key,
     is_published |-> 0]

\* access_key is the value generate_access_key(8) returned in this call
create_test_result(teacher_id, title, description, test_type, access_key) ==
    LET op == "create_test"
        t == sanitize_string(title, TitleMaxLength)
        d == IF description = None \/ Get(description) = <<>>
             THEN TRUE
             ELSE sanitize_string(Get(description), DescriptionMaxLength).ok
        row == create_test_row(teacher_id, title, description, test_type, access_key)
    IN  IF ~t.ok \/ ~d
        THEN Raise(op, ValidationError, "Text must be at most max_length characters")
        ELSE IF test_type \notin TestTypes
        THEN Raise(op, ValidationError, "test_type must be 'pre' or 'post'")
        ELSE IF ~TestCRUD_create_accepts(row)
        THEN Raise(op, DatabaseError, "Failed to create test")
        ELSE Return(op, row)

create_test(teacher_id, title, description, test_type, access_key) ==
    LET r == create_test_result(teacher_id, title, description, test_type, access_key)
    IN  IF r.cls # OK
        THEN NoCommit(r)
        ELSE /\ tests' = tests \cup {r.value}
             /\ nextTestId' = nextTestId + 1
             /\ result' = r
             /\ UNCHANGED <<users, questions, attempts, nextQuestionId, nextAttemptId>>

\* add_question comparing the options before they are sanitized
add_question_result_RawUnique(test_id, options, correct_answer, difficulty, order) ==
    LET op == "add_question"
        opts == [i \in 1..Len(options) |-> sanitize_string(options[i], TitleMaxLength).val]
        o == validate_integer(order, 0)
        row == [id |-> nextQuestionId,
                test_id |-> test_id,
                options |-> opts,
                correct_answer |-> correct_answer,
                difficulty |-> difficulty,
                order |-> o.val]
    IN  IF difficulty \notin Difficulties
        THEN Raise(op, ValidationError, "difficulty must be 'easy', 'medium', or 'hard'")
        ELSE IF Len(options) # 4
        THEN Raise(op, ValidationError, "Exactly 4 options are required")
        ELSE IF \E i \in 1..4 : ~sanitize_string(options[i], TitleMaxLength).ok
        THEN Raise(op, ValidationError, "Text must be at most max_length characters")
        ELSE IF Cardinality({options[i] : i \in 1..4}) # 4
        THEN Raise(op, ValidationError, "Options must be unique")
        ELSE IF ~(0 <= correct_answer /\ correct_answer <= 3)
        THEN Raise(op, ValidationError, "correct_answer must be an integer between 0 and 3")
        ELSE IF ~o.ok
        THEN Raise(op, ValidationError, "Value must be >= min_val")
        ELSE IF ~QuestionCRUD_create_accepts(row)
        THEN Raise(op, DatabaseError, "Failed to create question")
        ELSE Return(op, row)

add_question_result(test_id, options, correct_answer, difficulty, order) ==
    LET op == "add_question"
        opts == [i \in 1..Len(options) |-> sanitize_string(options[i], TitleMaxLength).val]
        o == validate_integer(order, 0)
        row == [id |-> nextQuestionId,
                test_id |-> test_id,
                options |-> opts,
                correct_answer |-> correct_answer,
                difficulty |-> difficulty,
                order |-> o.val]
    IN  IF difficulty \notin Difficulties
        THEN Raise(op, ValidationError, "difficulty must be 'easy', 'medium', or 'hard'")
        ELSE IF Len(options) # 4
        THEN Raise(op, ValidationError, "Exactly 4 options are required")
        ELSE IF \E i \in 1..4 : ~sanitize_string(options[i], TitleMaxLength).ok
        THEN Raise(op, ValidationError, "Text must be at most max_length characters")
        ELSE IF Cardinality({opts[i] : i \in 1..4}) # 4
        THEN Raise(op, ValidationError, "Options must be unique")
        ELSE IF ~(0 <= correct_answer /\ correct_answer <= 3)
        THEN Raise(op, ValidationError, "correct_answer must be an integer between 0 and 3")
        ELSE IF ~o.ok
        THEN Raise(op, ValidationError, "Value must be >= min_val")
        ELSE IF ~QuestionCRUD_create_accepts(row)
        THEN Raise(op, DatabaseError, "Failed to create question")
        ELSE Return(op, row)

add_question(test_id, options, correct_answer, difficulty, order) ==
    LET r == add_question_result(test_id, options, correct_answer, difficulty, order)
    IN  IF r.cls # OK
        THEN NoCommit(r)
        ELSE /\ questions' = questions \cup {r.value}
             /\ nextQuestionId' = nextQuestionId + 1
             /\ result' = r
             /\ UNCHANGED <<users, tests, attempts, nextTestId, nextAttemptId>>

\* get_test_by_key without upper()
get_test_by_key_result_NoUpper(access_key) ==
    LET op == "get_test_by_key"
        key == strip(access_key)
        found == TestCRUD_get_by_access_key(key)
    IN  IF access_key = <<>>
        THEN Raise(op, ValidationError, "Access key is required")
        ELSE IF found = {}
        THEN Raise(op, ValidationError, "Test not found for provided access key")
        ELSE IF Get(found).is_published = 0
        THEN Raise(op, ValidationError, "Test is not published yet")
        ELSE Return(op, Get(found))

get_test_by_key_result(access_key) ==
    LET op == "get_test_by_key"
        key == upper(strip(access_key))
        found == TestCRUD_get_by_access_key(key)
    IN  IF access_key = <<>>
        THEN Raise(op, ValidationError, "Access key is required")
        ELSE IF found = {}
        THEN Raise(op, ValidationError, "Test not found for provided access key")
        ELSE IF Get(found).is_published = 0
        THEN Raise(op, ValidationError, "Test is not published yet")
        ELSE Return(op, Get(found))

get_test_by_key(access_key) ==
    /\ result' = get_test_by_key_result(access_key)
    /\ UNCHANGED db

publish_test_result(test_id, teacher_id) ==
    LET op == "publish_test"
        test == TestCRUD_get_by_id(test_id)
        updated == TestCRUD_update(tests, test_id, [is_published |-> 1])
    IN  IF test = {}
        THEN Raise(op, ValidationError, "Test not found")
        ELSE IF Get(test).teacher_id # teacher_id
        THEN Raise(op, ValidationError, "You do not have permission to publish this test")
        ELSE Return(op, CHOOSE t \in updated : t.id = test_id)

publish_test(test_id, teacher_id) ==
    LET r == publish_test_result(test_id, teacher_id)
    IN  IF r.cls # OK
        THEN NoCommit(r)
        ELSE /\ tests' = TestCRUD_update(tests, test_id, [is_published |-> 1])
             /\ result' = r
             /\ UNCHANGED <<users, questions, attempts, nextTestId, nextQuestionId, nextAttemptId>>

\* The updates dict with test_type falling back to "pre" when it is not given
update_test_metadata_updates_DefaultType(title, description, test_type) ==
    LET fields == (IF title # None THEN {"title"} ELSE {})
                  \cup (IF description # None THEN {"description"} ELSE {})
                  \cup (IF title # None \/ description # None \/ test_type # None
                        THEN {"test_type"} ELSE {})
    IN  [f \in fields |->
            CASE f = "title" -> sanitize_string(Get(title), TitleMaxLength).val
              [] f = "description" ->
                    Some(sanitize_string(Get(description), DescriptionMaxLength).val)
              [] f = "test_type" -> IF test_type = None THEN "pre" ELSE Get(test_type)]

\* The updates dict built from the arguments that are not None
update_test_metadata_updates(title, description, test_type) ==
    LET fields == (IF title # None THEN {"title"} ELSE {})
                  \cup (IF description # None THEN {"description"} ELSE {})
                  \cup (IF test_type # None THEN {"test_type"} ELSE {})
    IN  [f \in fields |->
            CASE f = "title" -> sanitize_string(Get(title), TitleMaxLength).val
              [] f = "description" ->
                    Some(sanitize_string(Get(description), DescriptionMaxLength).val)
              [] f = "test_type" -> Get(test_type)]

update_test_metadata_result(test_id, teacher_id, title, description, test_type) ==
    LET op == "update_test_metadata"
        test == TestCRUD_get_by_id(test_id)
        updates == update_test_metadata_updates(title, description, test_type)
        updated == TestCRUD_update(tests, test_id, updates)
    IN  IF test = {}
        THEN Raise(op, ValidationError, "Test not found")
        ELSE IF Get(test).teacher_id # teacher_id
        THEN Raise(op, ValidationError, "You do not have permission to edit this test")
        ELSE IF \/ (title # None /\ ~sanitize_string(Get(title), TitleMaxLength).ok)
                \/ (description # None
                      /\ ~sanitize_string(Get(description), DescriptionMaxLength).ok)
        THEN Raise(op, ValidationError, "Text must be at most max_length characters")
        ELSE IF test_type # None /\ Get(test_type) \notin TestTypes
        THEN Raise(op, ValidationError, "test_type must be 'pre' or 'post'")
        ELSE IF DOMAIN updates = {}
        THEN Return(op, Get(test))
        ELSE Return(op, CHOOSE t \in updated : t.id = test_id)

update_test_metadata(test_id, teacher_id, title, description, test_type) ==
    LET r == update_test_metadata_result(test_id, teacher_id, title, description, test_type)
        updates == update_test_metadata_updates(title, description, test_type)
    IN  IF r.cls # OK \/ DOMAIN updates = {}
        THEN NoCommit(r)
        ELSE /\ tests' = TestCRUD_update(tests, test_id, updates)
             /\ result' = r
             /\ UNCHANGED <<users, questions, attempts, nextTestId, nextQuestionId, nextAttemptId>>

delete_test_result(test_id, teacher_id) ==
    LET op == "delete_test"
        test == TestCRUD_get_by_id(test_id)
    IN  IF test = {}
        THEN Raise(op, ValidationError, "Test not found")
        ELSE IF Get(test).teacher_id # teacher_id
        THEN Raise(op, ValidationError, "You do not have permission to delete this test")
        ELSE Return(op, TRUE)

delete_test(test_id, teacher_id) ==
    LET r == delete_test_result(test_id, teacher_id)
    IN  IF r.cls # OK
        THEN NoCommit(r)
        ELSE /\ tests' = TestCRUD_delete_tests(test_id)
             /\ questions' = TestCRUD_delete_questions(test_id)
             /\ attempts' = TestCRUD_delete_attempts(test_id)
             /\ result' = r
             /\ UNCHANGED <<users, nextTestId, nextQuestionId, nextAttemptId>>

----------------------------------------------------------------------------
(* services/attempt_service.py *)

\* The payload with the answer key left in
start_attempt_payload_WithAnswer(test) ==
    LET qs == QuestionCRUD_get_test_questions(test.id)
    IN  [test_id |-> test.id,
         test_title |-> test.title,
         test_type |-> test.test_type,
         questions_count |-> Len(qs),
         questions |-> [i \in 1..Len(qs) |->
                           [id |-> qs[i].id,
                            options |-> qs[i].options,
                            correct_answer |-> qs[i].correct_answer,
                            difficulty |-> qs[i].difficulty]]]

start_attempt_payload(test) ==
    LET qs == QuestionCRUD_get_test_questions(test.id)
    IN  [test_id |-> test.id,
         test_title |-> test.title,
         test_type |-> test.test_type,
         questions_count |-> Len(qs),
         questions |-> [i \in 1..Len(qs) |->
                           [id |-> qs[i].id,
                            options |-> qs[i].options,
                            difficulty |-> qs[i].difficulty]]]

start_attempt_result(test_id, student_id) ==
    LET op == "start_attempt"
        test == TestCRUD_get_by_id(test_id)
    IN  IF test = {}
        THEN Raise(op, ValidationError, "Test not found")
        ELSE IF Get(test).is_published = 0
        THEN Raise(op, ValidationError, "Test is not published")
        ELSE Return(op, start_attempt_payload(Get(test)))

start_attempt(test_id, student_id) ==
    /\ result' = start_attempt_result(test_id, student_id)
    /\ UNCHANGED db

\* submit_attempt's checks accepting answers that cover only part of the test
submit_attempt_error_Subset(test_id, answers) ==
    LET qs == QuestionCRUD_get_test_questions(test_id)
        qids == {qs[i].id : i \in 1..Len(qs)}
    IN  IF qs = <<>> THEN "No questions in test"
        ELSE IF ~(DOMAIN answers \subseteq qids) THEN "All questions must be answered"
        ELSE IF \E k \in DOMAIN answers : answers[k] < 0 \/ answers[k] > 3
        THEN "Invalid answer value; must be 0-3"
        ELSE ""

\* The checks of submit_attempt before it calls AttemptCRUD.create:
\* the message of the ValidationError raised, or "" when all pass.
submit_attempt_error(test_id, answers) ==
    LET qs == QuestionCRUD_get_test_questions(test_id)
        qids == {qs[i].id : i \in 1..Len(qs)}
    IN  IF qs = <<>> THEN "No questions in test"
        ELSE IF DOMAIN answers # qids THEN "All questions must be answered"
        ELSE IF \E k \in DOMAIN answers : answers[k] < 0 \/ answers[k] > 3
        THEN "Invalid answer value; must be 0-3"
        ELSE ""

submit_attempt_result(test_id, student_id, answers, utcnow) ==
    LET op == "submit_attempt"
        err == submit_attempt_error(test_id, answers)
        row == AttemptCRUD_row(test_id, student_id, answers, utcnow)
    IN  IF err # ""
        THEN Raise(op, ValidationError, err)
        ELSE IF ~AttemptCRUD_create_accepts(row)
        THEN Raise(op, DatabaseError, "Failed to create attempt")
        ELSE Return(op, row)

submit_attempt(test_id, student_id, answers, utcnow) ==
    LET r == submit_attempt_result(test_id, student_id, answers, utcnow)
    IN  IF r.cls # OK
        THEN NoCommit(r)
        ELSE /\ attempts' = attempts \cup {r.value}
             /\ nextAttemptId' = nextAttemptId + 1
             /\ result' = r
             /\ UNCHANGED <<users, tests, questions, nextTestId, nextQuestionId>>

\* submit_attempt up to its call of AttemptCRUD.create, in a request that
\* runs beside others: the questions are read and the answers checked
submit_attempt_validate(test_id, student_id, answers) ==
    /\ LET err == submit_attempt_error(test_id, answers)
       IN  IF err # ""
           THEN /\ result' = Raise("submit_attempt", ValidationError, err)
                /\ UNCHANGED requests
           ELSE /\ requests' = requests \cup {[op |-> "submit_attempt", test_id |-> test_id,
                                               student_id |-> student_id, answers |-> answers]}
                /\ UNCHANGED result
    /\ UNCHANGED <<db, session, clock, allowed>>

\* AttemptCRUD.create of the request: the questions are read again, as they
\* are committed by now, the score is computed and the row inserted
submit_attempt_create(req, utcnow) ==
    /\ req \in requests
    /\ req.op = "submit_attempt"
    /\ requests' = requests \ {req}
    /\ LET row == AttemptCRUD_row(req.test_id, req.student_id, req.answers, utcnow)
       IN  IF ~AttemptCRUD_create_accepts(row)
           THEN NoCommit(Raise("submit_attempt", DatabaseError, "Failed to create attempt"))
           ELSE /\ attempts' = attempts \cup {row}
                /\ nextAttemptId' = nextAttemptId + 1
                /\ result' = Return("submit_attempt", row)
                /\ UNCHANGED <<users, tests, questions, nextTestId, nextQuestionId>>
    /\ UNCHANGED <<session, clock, allowed>>

\* The stored answers read with the filter on the keys inverted
parse_answers_NonDigitKeys(raw_answers) ==
    [n \in {int(k) : k \in {x \in DOMAIN raw_answers : ~isdigit(x)}} |->
        raw_answers[CHOOSE k \in DOMAIN raw_answers : ~isdigit(k) /\ int(k) = n]]

\* {int(k): int(v) for k, v in raw_answers.items() if str(k).isdigit()}
parse_answers(raw_answers) ==
    [n \in {int(k) : k \in {x \in DOMAIN raw_answers : isdigit(x)}} |->
        raw_answers[CHOOSE k \in DOMAIN raw_answers : isdigit(k) /\ int(k) = n]]

detailed_results(attempt) ==
    LET qs == QuestionCRUD_get_test_questions(attempt.test_id)
        answers == parse_answers(attempt.answers)
        student_answer(q) == IF q.id \in DOMAIN answers THEN Some(answers[q.id]) ELSE None
    IN  [i \in 1..Len(qs) |->
            [question_id |-> qs[i].id,
             options |-> qs[i].options,
             student_answer |-> student_answer(qs[i]),
             correct_answer |-> qs[i].correct_answer,
             is_correct |-> student_answer(qs[i]) = Some(qs[i].correct_answer)]]

\* get_attempt_results without the ownership check
get_attempt_results_result_NoOwner(attempt_id, student_id) ==
    LET op == "get_attempt_results"
        attempt == AttemptCRUD_get_by_id(attempt_id)
    IN  IF attempt = {}
        THEN Raise(op, ValidationError, "Attempt not found")
        ELSE Return(op, [attempt_id |-> Get(attempt).id,
                         score |-> Get(attempt).score,
                         completed_at |-> Get(attempt).completed_at,
                         detailed_results |-> detailed_results(Get(attempt))])

get_attempt_results_result(attempt_id, student_id) ==
    LET op == "get_attempt_results"
        attempt == AttemptCRUD_get_by_id(attempt_id)
    IN  IF attempt = {}
        THEN Raise(op, ValidationError, "Attempt not found")
        ELSE IF Get(attempt).student_id # student_id
        THEN Raise(op, ValidationError, "Unauthorized to view this attempt")
        ELSE Return(op, [attempt_id |-> Get(attempt).id,
                         score |-> Get(attempt).score,
                         completed_at |-> Get(attempt).completed_at,
                         detailed_results |-> detailed_results(Get(attempt))])

get_attempt_results(attempt_id, student_id) ==
    /\ result' = get_attempt_results_result(attempt_id, student_id)
    /\ UNCHANGED db

\* Python floats that are quotients of integers, kept exact as the reduced
\* fraction n / d with d > 0
Fraction(n, d) ==
    LET g == GCD(IF n < 0 THEN 0 - n ELSE n, d)
    IN  [num |-> n \div g, den |-> d \div g]

RECURSIVE SumOfScores(_)
SumOfScores(rows) ==
    IF rows = {} THEN ZeroScore
    ELSE LET a == CHOOSE r \in rows : TRUE
             rest == SumOfScores(rows \ {a})
         IN  Fraction(a.score.num * rest.den + rest.num * a.score.den, a.score.den * rest.den)

\* statistics.mean of the scores of a non-empty list of attempts
mean(rows) ==
    LET total == SumOfScores(rows)
    IN  Fraction(total.num, total.den * Cardinality(rows))

\* The attempts on a test, whoever made them
student_attempts_AnyStudent(student_id, test_id) ==
    {a \in attempts : a.test_id = test_id}

\* [a for a in AttemptCRUD.get_student_attempts(session, student_id)
\*  if a.test_id == test_id]
student_attempts(student_id, test_id) ==
    {a \in attempts : a.student_id = student_id /\ a.test_id = test_id}

calculate_improvement_result(student_id, test_id_pre, test_id_post) ==
    LET pre_attempts == student_attempts(student_id, test_id_pre)
        post_attempts == student_attempts(student_id, test_id_post)
        pre_score == IF pre_attempts # {} THEN mean(pre_attempts) ELSE ZeroScore
        post_score == IF post_attempts # {} THEN mean(post_attempts) ELSE ZeroScore
        improvement_abs == Fraction(post_score.num * pre_score.den
                                        - pre_score.num * post_score.den,
                                    post_score.den * pre_score.den)
        improvement_pct == IF pre_score.num > 0
                           THEN Fraction(improvement_abs.num * pre_score.den * 100,
                                         improvement_abs.den * pre_score.num)
                           ELSE ZeroScore
    IN  Return("calculate_improvement",
               [pre_score |-> pre_score,
                post_score |-> post_score,
                improvement_pct |-> improvement_pct,
                improvement_abs |-> improvement_abs])

calculate_improvement(student_id, test_id_pre, test_id_post) ==
    /\ result' = calculate_improvement_result(student_id, test_id_pre, test_id_post)
    /\ UNCHANGED db

----------------------------------------------------------------------------
(* auth/authenticator.py, with the validators and UserCRUD it calls *)

UsernameMinLength == 3
UsernameMaxLength == 50
EmailMaxLength == 120
PasswordMinLength == 8

UpperLetters == {"A", "B"}
LowerLetters == {"a", "b"}
Letters == UpperLetters \cup LowerLetters

\* USERNAME_RE: ^[A-Za-z0-9_]{3,50}$
validate_username(username) ==
    LET u == strip(username)
    IN  [ok |-> /\ Len(u) >= UsernameMinLength
                /\ Len(u) <= UsernameMaxLength
                /\ \A i \in 1..Len(u) : u[i] \in Letters \cup DigitChars \cup {"_"},
         val |-> u]

\* EMAIL_RE: ^[A-Za-z0-9._%+-]+@[A-Za-z0-9.-]+\.[A-Za-z]{2,}$
EMAIL_RE(e) ==
    \E at \in 2..Len(e), dot \in 3..Len(e) :
        /\ e[at] = "@"
        /\ e[dot] = "."
        /\ at + 1 < dot
        /\ dot + 2 <= Len(e)
        /\ \A i \in 1..(at - 1) : e[i] \in Letters \cup DigitChars \cup {".", "_", "%", "+", "-"}
        /\ \A i \in (at + 1)..(dot - 1) : e[i] \in Letters \cup DigitChars \cup {".", "-"}
        /\ \A i \in (dot + 1)..Len(e) : e[i] \in Letters

\* err is the message of the ValidationError raised, "" when there is none
validate_email(email) ==
    LET e == strip(email)
    IN  [err |-> IF Len(e) > EmailMaxLength THEN "Email must be at most 120 characters"
                 ELSE IF ~EMAIL_RE(e) THEN "Invalid email format"
                 ELSE "",
         val |-> e]

\* The message of the ValidationError raised, "" when there is none
validate_password(password) ==
    IF Len(password) < PasswordMinLength
    THEN "Password must be at least 8 characters long"
    ELSE IF ~\E i \in 1..Len(password) : password[i] \in UpperLetters
    THEN "Password must include at least one uppercase letter"
    ELSE IF ~\E i \in 1..Len(password) : password[i] \in LowerLetters
    THEN "Password must include at least one lowercase letter"
    ELSE IF ~\E i \in 1..Len(password) : password[i] \in DigitChars
    THEN "Password must include at least one digit"
    ELSE ""

\* bcrypt: the hash carries the salt and is a function of salt and password;
\* checkpw recomputes it with the salt of the stored hash.
hash_password(password, salt) == [salt |-> salt, digest |-> <<salt, password>>]

verify_password(password, hash_value) ==
    hash_password(password, hash_value.salt) = hash_value

UserCRUD_get_by_username(username) == {u \in users : u.username = username}

UserCRUD_get_by_email(email) == {u \in users : u.email = email}

\* INSERT INTO users: the unique indexes on username and email
UserCRUD_create_accepts(row) ==
    \A u \in users : u.username # row.username /\ u.email # row.email

\* register_user looking up the username as typed, before it is trimmed
register_user_result_Untrimmed(username, email, password, role, salt) ==
    LET op == "register_user"
        u == validate_username(username)
        e == validate_email(email)
        row == [id |-> nextUserId,
                username |-> u.val,
                email |-> e.val,
                password_hash |-> hash_password(password, salt),
                role |-> role,
                is_active |-> 1]
    IN  IF ~u.ok
        THEN Raise(op, ValidationError, "Username must be 3-50 chars, alphanumeric or underscore only")
        ELSE IF e.err # ""
        THEN Raise(op, ValidationError, e.err)
        ELSE IF validate_password(password) # ""
        THEN Raise(op, ValidationError, validate_password(password))
        ELSE IF role \notin {"teacher", "student"}
        THEN Raise(op, ValidationError, "Role must be 'teacher' or 'student'")
        ELSE IF UserCRUD_get_by_username(username) # {}
        THEN Raise(op, ValidationError, "Username already exists")
        ELSE IF UserCRUD_get_by_email(e.val) # {}
        THEN Raise(op, ValidationError, "Email already exists")
        ELSE IF ~UserCRUD_create_accepts(row)
        THEN Raise(op, DatabaseError, "Failed to create user")
        ELSE Return(op, row)

\* salt is the value bcrypt.gensalt returned in this call
register_user_result(username, email, password, role, salt) ==
    LET op == "register_user"
        u == validate_username(username)
        e == validate_email(email)
        row == [id |-> nextUserId,
                username |-> u.val,
                email |-> e.val,
                password_hash |-> hash_password(password, salt),
                role |-> role,
                is_active |-> 1]
    IN  IF ~u.ok
        THEN Raise(op, ValidationError, "Username must be 3-50 chars, alphanumeric or underscore only")
        ELSE IF e.err # ""
        THEN Raise(op, ValidationError, e.err)
        ELSE IF validate_password(password) # ""
        THEN Raise(op, ValidationError, validate_password(password))
        ELSE IF role \notin {"teacher", "student"}
        THEN Raise(op, ValidationError, "Role must be 'teacher' or 'student'")
        ELSE IF UserCRUD_get_by_username(u.val) # {}
        THEN Raise(op, ValidationError, "Username already exists")
        ELSE IF UserCRUD_get_by_email(e.val) # {}
        THEN Raise(op, ValidationError, "Email already exists")
        ELSE IF ~UserCRUD_create_accepts(row)
        THEN Raise(op, DatabaseError, "Failed to create user")
        ELSE Return(op, row)

register_user(username, email, password, role, salt) ==
    LET r == register_user_result(username, email, password, role, salt)
    IN  IF r.cls # OK
        THEN result' = r /\ UNCHANGED <<db, nextUserId>>
        ELSE /\ users' = users \cup {r.value}
             /\ nextUserId' = nextUserId + 1
             /\ result' = r
             /\ UNCHANGED <<tests, questions, attempts, nextTestId, nextQuestionId,
                            nextAttemptId>>

\* register_user up to its call of UserCRUD.create, in a request that runs
\* beside others: the fields are validated and the duplicates looked up
register_user_check(username, email, password, role, salt) ==
    /\ LET r == register_user_result(username, email, password, role, salt)
       IN  IF r.cls # OK
           THEN /\ result' = r
                /\ UNCHANGED requests
           ELSE /\ requests' = requests \cup {[op |-> "register_user", user_data |-> r.value]}
                /\ UNCHANGED result
    /\ UNCHANGED <<db, nextUserId, session, clock, allowed>>

\* UserCRUD.create of the request: the INSERT is committed, or the unique
\* indexes refuse it and the session is rolled back
register_user_insert(req) ==
    /\ req \in requests
    /\ req.op = "register_user"
    /\ requests' = requests \ {req}
    /\ LET row == [req.user_data EXCEPT !.id = nextUserId]
       IN  IF ~UserCRUD_create_accepts(row)
           THEN /\ result' = Raise("register_user", DatabaseError, "Failed to create user")
                /\ UNCHANGED <<db, nextUserId>>
           ELSE /\ users' = users \cup {row}
                /\ nextUserId' = nextUserId + 1
                /\ result' = Return("register_user", row)
                /\ UNCHANGED <<tests, questions, attempts, nextTestId, nextQuestionId,
                               nextAttemptId>>
    /\ UNCHANGED <<session, clock, allowed>>

\* login_user without the is_active check
login_user_result_NoActive(username, password) ==
    LET user == UserCRUD_get_by_username(username)
    IN  IF user = {}
        THEN Return("login_user", [ok |-> FALSE, user |-> None])
        ELSE IF ~verify_password(password, Get(user).password_hash)
        THEN Return("login_user", [ok |-> FALSE, user |-> None])
        ELSE Return("login_user", [ok |-> TRUE, user |-> user])

\* The returned pair (bool, Optional[User])
login_user_result(username, password) ==
    LET user == UserCRUD_get_by_username(username)
    IN  IF user = {}
        THEN Return("login_user", [ok |-> FALSE, user |-> None])
        ELSE IF Get(user).is_active = 0
        THEN Return("login_user", [ok |-> FALSE, user |-> None])
        ELSE IF ~verify_password(password, Get(user).password_hash)
        THEN Return("login_user", [ok |-> FALSE, user |-> None])
        ELSE Return("login_user", [ok |-> TRUE, user |-> user])

login_user(username, password) ==
    /\ result' = login_user_result(username, password)
    /\ UNCHANGED <<db, nextUserId>>

\* No operation of the application clears users.is_active; the column is
\* written by whoever administers the database.
Database_deactivate_user(user_id) ==
    /\ \E u \in users : u.id = user_id /\ u.is_active = 1
    /\ users' = {IF u.id = user_id THEN [u EXCEPT !.is_active = 0] ELSE u : u \in users}
    /\ result' = Return("deactivate", None)
    /\ UNCHANGED <<tests, questions, attempts, nextTestId, nextQuestionId, nextAttemptId,
                   nextUserId>>

----------------------------------------------------------------------------
(* services/ai_service.py *)

StemMinLength == 10
ExplanationMinLength == 5
NumQuestionsMin == 1
NumQuestionsMax == 20
max_retries == 3

\* An item of the decoded JSON list.  kind is "dict" for an object; stem and
\* correct are None when the key is missing or its value has another type.
\* The message of the ValueError raised for the item, "" when there is none.
item_error(q) ==
    IF q.kind # "dict" THEN "Item must be an object"
    ELSE IF q.stem = None \/ Len(strip(Get(q.stem))) < StemMinLength THEN "Invalid stem"
    ELSE IF Len(q.options) # 4 THEN "Options must be list of 4"
    ELSE IF Cardinality({strip(q.options[i]) : i \in 1..4}) # 4
    THEN "Options must be unique strings"
    ELSE IF q.correct = None \/ ~(0 <= Get(q.correct) /\ Get(q.correct) <= 3)
    THEN "Correct must be 0-3 integer"
    ELSE IF Len(strip(q.explanation)) < ExplanationMinLength THEN "Invalid explanation"
    ELSE IF strip(q.topic_tag) = <<>> THEN "Invalid topic_tag"
    ELSE IF q.difficulty \notin Difficulties THEN "Invalid difficulty"
    ELSE ""

\* The dict appended to valid
valid_item(q) ==
    [stem |-> strip(Get(q.stem)),
     options |-> [i \in 1..4 |-> strip(q.options[i])],
     correct |-> Get(q.correct),
     explanation |-> strip(q.explanation),
     topic_tag |-> strip(q.topic_tag),
     difficulty |-> q.difficulty]

RECURSIVE valid_items(_)
valid_items(items) ==
    IF items = <<>> THEN <<>>
    ELSE (IF item_error(Head(items)) = "" THEN <<valid_item(Head(items))>> ELSE <<>>)
         \o valid_items(Tail(items))

\* The minimum with the 80% rounded up instead of down
min_valid_count_Ceiling(expected_count) ==
    LET c == (8 * expected_count + 9) \div 10
    IN  IF c > 1 THEN c ELSE 1

\* max(1, int(0.8 * expected_count)).  The double 0.8 lies just above 4/5,
\* so the product never rounds below an integer and int() gives the floor of
\* 8 * expected_count / 10.
min_valid_count(expected_count) ==
    LET f == (8 * expected_count) \div 10
    IN  IF f > 1 THEN f ELSE 1

\* data is None when the decoded JSON is not a list
validate_questions(data, expected_count) ==
    LET op == "_validate_questions"
    IN  IF data = None
        THEN Raise(op, ValidationError, "AI response must be a JSON list")
        ELSE IF Len(valid_items(Get(data))) < min_valid_count(expected_count)
        THEN Raise(op, ValidationError, "Too many invalid questions in AI output")
        ELSE Return(op, valid_items(Get(data)))

Languages ==
    {<<"e", "n", "g", "l", "i", "s", "h">>, <<"m", "a", "r", "a", "t", "h", "i">>,
     <<"h", "i", "n", "d", "i">>}

\* The message of the ValidationError raised before the loop, "" when there
\* is none.  args.configured: one of settings.groq_api_key and
\* settings.openai_api_key is set.
generate_questions_error(args) ==
    IF strip(args.topic) = <<>> \/ strip(args.syllabus) = <<>>
    THEN "Topic and syllabus are required"
    ELSE IF args.difficulty \notin Difficulties
    THEN "Invalid difficulty. Choose easy, medium, or hard"
    ELSE IF ~(NumQuestionsMin <= args.num_questions /\ args.num_questions <= NumQuestionsMax)
    THEN "num_questions must be between 1 and 20"
    ELSE IF lower(strip(args.language)) \notin Languages
    THEN "language must be one of: english, marathi, hindi"
    ELSE IF ~args.configured
    THEN "AI provider not configured. Set GROQ_API_KEY or OPENAI_API_KEY in .env"
    ELSE ""

\* No call of AIService is running
NoGeneration ==
    [pc |-> "idle", args |-> None, attempt |-> 0, calls |-> 0, waits |-> <<>>, errors |-> <<>>]

\* generate_questions up to the head of the loop, with max_retries left at
\* its default
generate_questions(args) ==
    /\ ai.pc = "idle"
    /\ LET msg == generate_questions_error(args)
       IN  IF msg # ""
           THEN /\ result' = Raise("generate_questions", ValidationError, msg)
                /\ ai' = [NoGeneration EXCEPT !.args = Some(args)]
           ELSE /\ ai' = [NoGeneration EXCEPT !.pc = "call", !.args = Some(args), !.attempt = 1]
                /\ UNCHANGED result
    /\ UNCHANGED <<db, auth, web>>

\* The message of the exception raised in the try block for a response of
\* the provider, "" when there is none.  response.kind is "error" when the
\* client raises, "text" when the content holds no JSON, "json" when it
\* decodes to response.data.
attempt_error(response, num_questions) ==
    IF response.kind = "error" THEN "provider error"
    ELSE IF response.kind = "text"
    THEN "Provider returned non-JSON content. Please try again."
    ELSE LET r == validate_questions(response.data, num_questions)
         IN  IF r.cls = OK THEN "" ELSE r.msg

\* The seconds slept after an attempt, growing by one per attempt
attempt_wait_Linear(attempt) == attempt

\* wait = 2 ** (attempt - 1)
attempt_wait(attempt) == 2 ^ (attempt - 1)

\* One pass of the try block: the provider is called, its content decoded
\* and validated; the call returns, or the except clause records the error.
generate_questions_attempt(response) ==
    /\ ai.pc = "call"
    /\ LET num_questions == Get(ai.args).num_questions
           err == attempt_error(response, num_questions)
       IN  IF err = ""
           THEN /\ result' = Return("generate_questions",
                                    validate_questions(response.data, num_questions).value)
                /\ ai' = [ai EXCEPT !.pc = "idle", !.calls = @ + 1]
           ELSE /\ ai' = [ai EXCEPT !.pc = "sleep", !.calls = @ + 1,
                                    !.errors = Append(@, err)]
                /\ UNCHANGED result
    /\ UNCHANGED <<db, auth, web>>

\* time.sleep(wait) returns; the loop goes on or ends with the final raise,
\* whose message is msg followed by the text of last_err
generate_questions_sleep ==
    /\ ai.pc = "sleep"
    /\ IF ai.attempt < max_retries
       THEN /\ ai' = [ai EXCEPT !.pc = "call", !.attempt = @ + 1,
                                !.waits = Append(@, attempt_wait(ai.attempt))]
            /\ UNCHANGED result
       ELSE /\ ai' = [ai EXCEPT !.pc = "idle",
                                !.waits = Append(@, attempt_wait(ai.attempt))]
            /\ result' = [op |-> "generate_questions", cls |-> ValidationError,
                           msg |-> "Failed to generate questions: ",
                           last_err |-> ai.errors[Len(ai.errors)], value |-> None]
    /\ UNCHANGED <<db, auth, web>>

\* _validate_questions called on its own
validate_questions_call ==
    /\ ai.pc = "validate"
    /\ result' = validate_questions(ai.data, ai.expected_count)
    /\ ai' = [ai EXCEPT !.pc = "validated"]
    /\ UNCHANGED <<db, auth, web>>

----------------------------------------------------------------------------
(* st.session_state, auth/authenticator.py SessionManager and utils/security.py *)

\* The session state of a browser that has just connected: the defaults of
\* initialize_session, no rate limiter bucket, no test under way
FreshSession ==
    [authenticated |-> FALSE, user_id |-> None, role |-> None,
     current_test_id |-> None, current_test_info |-> None, buckets |-> <<>>]

rate_limit_per_minute == 60
WindowSeconds == 60

\* SessionManager.login
SessionManager_login(user_id, role) ==
    /\ session' = [session EXCEPT !.authenticated = TRUE, !.user_id = Some(user_id),
                                  !.role = Some(role)]
    /\ result' = Return("SessionManager.login", None)
    /\ UNCHANGED <<db, auth, generation, requests, clock, allowed>>

\* SessionManager.logout: every key of the session state is deleted
SessionManager_logout ==
    /\ session' = FreshSession
    /\ result' = Return("SessionManager.logout", None)
    /\ UNCHANGED <<db, auth, generation, requests, clock, allowed>>

\* allow_action refusing only above the limit
allow_action_buckets_Above(key, limit_per_minute) ==
    LET limit == IF limit_per_minute = None \/ Get(limit_per_minute) = 0
                 THEN rate_limit_per_minute ELSE Get(limit_per_minute)
        fresh == key \notin DOMAIN session.buckets \/ clock >= session.buckets[key].reset_at
        b == IF fresh THEN [count |-> 0, reset_at |-> clock + WindowSeconds]
             ELSE session.buckets[key]
        b2 == IF b.count > limit THEN b ELSE [b EXCEPT !.count = @ + 1]
    IN  [k \in DOMAIN session.buckets \cup {key} |-> IF k = key THEN b2 ELSE session.buckets[k]]

\* The buckets after allow_action(key, limit_per_minute)
allow_action_buckets(key, limit_per_minute) ==
    LET limit == IF limit_per_minute = None \/ Get(limit_per_minute) = 0
                 THEN rate_limit_per_minute ELSE Get(limit_per_minute)
        fresh == key \notin DOMAIN session.buckets \/ clock >= session.buckets[key].reset_at
        b == IF fresh THEN [count |-> 0, reset_at |-> clock + WindowSeconds]
             ELSE session.buckets[key]
        b2 == IF b.count >= limit THEN b ELSE [b EXCEPT !.count = @ + 1]
    IN  [k \in DOMAIN session.buckets \cup {key} |-> IF k = key THEN b2 ELSE session.buckets[k]]

\* allow_action returns True exactly when it has counted the call.  The
\* outcome is kept with the arguments of the call.
allow_action_value(key, limit_per_minute) ==
    LET buckets == allow_action_buckets(key, limit_per_minute)
        counted == \/ key \notin DOMAIN session.buckets
                   \/ clock >= session.buckets[key].reset_at
                   \/ buckets[key].count > session.buckets[key].count
    IN  counted /\ buckets[key].count > 0

\* The record of the calls let through, after a call for key that returned value
allowed_after(key, value) ==
    LET running == key \in DOMAIN allowed /\ clock < allowed[key].first + WindowSeconds
    IN  IF ~value THEN allowed
        ELSE [k \in DOMAIN allowed \cup {key} |->
                IF k # key THEN allowed[k]
                ELSE IF running THEN [allowed[k] EXCEPT !.n = @ + 1]
                ELSE [first |-> clock, n |-> 1]]

allow_action(key, limit_per_minute) ==
    LET value == allow_action_value(key, limit_per_minute)
    IN  /\ session' = [session EXCEPT !.buckets = allow_action_buckets(key, limit_per_minute)]
        /\ result' = [op |-> "allow_action", cls |-> OK, msg |-> "", value |-> value,
                      key |-> key, limit_per_minute |-> limit_per_minute]
        /\ allowed' = allowed_after(key, value)
        /\ UNCHANGED <<db, auth, generation, requests, clock>>

\* Time passes
Tick(seconds) ==
    /\ clock' = clock + seconds
    /\ UNCHANGED <<db, auth, generation, result, requests, session, allowed>>

----------------------------------------------------------------------------
(* pages/0_Admin.py: the quick actions call the CRUD layer directly *)

Admin_set_published(test_id, flag) ==
    LET op == "TestCRUD.update"
        updated == TestCRUD_update(tests, test_id, [is_published |-> flag])
    IN  /\ tests' = updated
        /\ result' = IF TestCRUD_get_by_id(test_id) = {}
                     THEN Raise(op, DatabaseError, "Test not found after update")
                     ELSE Return(op, CHOOSE t \in updated : t.id = test_id)
        /\ UNCHANGED <<users, questions, attempts, nextTestId, nextQuestionId, nextAttemptId>>

Admin_delete_test(test_id) ==
    /\ tests' = TestCRUD_delete_tests(test_id)
    /\ questions' = TestCRUD_delete_questions(test_id)
    /\ attempts' = TestCRUD_delete_attempts(test_id)
    /\ result' = Return("TestCRUD.delete", TestCRUD_get_by_id(test_id) # {})
    /\ UNCHANGED <<users, nextTestId, nextQuestionId, nextAttemptId>>

Admin_delete_question(question_id) ==
    /\ questions' = QuestionCRUD_delete_rows(question_id)
    /\ result' = Return("QuestionCRUD.delete", \E q \in questions : q.id = question_id)
    /\ UNCHANGED <<users, tests, attempts, nextTestId, nextQuestionId, nextAttemptId>>

----------------------------------------------------------------------------
(* pages/4 Take Test and pages/2 Create Test, as run by one browser session.
   What a page shows with st.error is kept in result with class StError. *)

StError == "st.error"

SessionOnly == UNCHANGED <<auth, generation, requests, clock, allowed>>

\* Take Test, step 1: the form with the access key is submitted
TakeTest_start(typed) ==
    LET access_key == upper(strip(typed))
        found == get_test_by_key_result(access_key)
        test_info == start_attempt_result(found.value.id, Get(session.user_id))
    IN  /\ session.authenticated
        /\ session.current_test_id = None
        /\ IF access_key = <<>>
           THEN /\ result' = Raise("Take Test", StError, "Fill all fields")
                /\ UNCHANGED session
           ELSE IF found.cls # OK
           THEN /\ result' = found
                /\ UNCHANGED session
           ELSE IF test_info.cls # OK
           THEN /\ result' = test_info
                /\ UNCHANGED session
           ELSE /\ result' = test_info
                /\ session' = [session EXCEPT
                                  !.current_test_id = Some(test_info.value.test_id),
                                  !.current_test_info = Some(test_info.value)]
        /\ UNCHANGED db
        /\ SessionOnly

\* The ids of the questions the snapshot of the session shows
SnapshotIds ==
    IF session.current_test_info = None THEN {}
    ELSE LET qs == Get(session.current_test_info).questions
         IN  {qs[i].id : i \in 1..Len(qs)}

\* Take Test, step 2: one radio choice per question of the snapshot, then
\* Submit Test
TakeTest_submit(current_answers, utcnow) ==
    /\ session.authenticated
    /\ session.current_test_id # None
    /\ IF session.current_test_info = None
       THEN /\ result' = Raise("Take Test", StError,
                               "Test session expired. Please re-enter the access key.")
            /\ session' = [session EXCEPT !.current_test_id = None]
            /\ UNCHANGED db
       ELSE LET test_info == Get(session.current_test_info)
                r == submit_attempt_result(test_info.test_id, Get(session.user_id),
                                           current_answers, utcnow)
            IN  /\ DOMAIN current_answers = SnapshotIds
                /\ submit_attempt(test_info.test_id, Get(session.user_id),
                                  current_answers, utcnow)
                /\ session' = IF r.cls = OK
                              THEN [session EXCEPT !.current_test_id = None,
                                                   !.current_test_info = None]
                              ELSE session
    /\ SessionOnly

\* Create Test, step 1: the test form is submitted
CreateTest_create_test(title, description, test_type, access_key) ==
    LET r == create_test_result(Get(session.user_id), title, description, test_type,
                                access_key)
    IN  /\ session.authenticated
        /\ session.role = Some("teacher")
        /\ session.current_test_id = None
        /\ create_test(Get(session.user_id), title, description, test_type, access_key)
        /\ session' = IF r.cls = OK
                      THEN [session EXCEPT !.current_test_id = Some(r.value.id)]
                      ELSE session
        /\ SessionOnly

\* Create Test, step 2, when the test of the session is gone
CreateTest_not_found ==
    /\ result' = Raise("Create Test", StError, "Test not found. It may have been deleted.")
    /\ session' = [session EXCEPT !.current_test_id = None]
    /\ UNCHANGED db

\* Create Test, step 2: the question form is submitted
CreateTest_add_question(options, correct_answer, difficulty) ==
    LET test == TestCRUD_get_by_id(Get(session.current_test_id))
    IN  /\ session.authenticated
        /\ session.role = Some("teacher")
        /\ session.current_test_id # None
        /\ IF test = {}
           THEN CreateTest_not_found
           ELSE /\ add_question(Get(test).id, options, correct_answer, difficulty,
                                Len(QuestionCRUD_get_test_questions(Get(test).id)))
                /\ UNCHANGED session
        /\ SessionOnly

\* Create Test, step 2: Publish Test is pressed
CreateTest_publish_test ==
    LET test == TestCRUD_get_by_id(Get(session.current_test_id))
    IN  /\ session.authenticated
        /\ session.role = Some("teacher")
        /\ session.current_test_id # None
        /\ IF test = {}
           THEN CreateTest_not_found
           ELSE IF Len(QuestionCRUD_get_test_questions(Get(test).id)) < 1
           THEN /\ result' = Raise("Create Test", StError, "Add at least 1 question")
                /\ UNCHANGED <<db, session>>
           ELSE /\ publish_test(Get(test).id, Get(session.user_id))
                /\ session' = IF publish_test_result(Get(test).id,
                                                     Get(session.user_id)).cls = OK
                              THEN [session EXCEPT !.current_test_id = None]
                              ELSE session
        /\ SessionOnly

----------------------------------------------------------------------------
(* pages/3 AI Generate: Save as Test.  TestService.create_test and every
   TestService.add_question commit on their own, so the run of the handler
   is kept in requests between two commits. *)

SaveLimit == 5

\* Save as Test is pressed for the generated questions of the session: the
\* rate limit, then create_test
SaveAsTest_create_test(generated_questions, generated_test_title, access_key) ==
    LET value == allow_action_value("ai_save_test", Some(SaveLimit))
        r == create_test_result(Get(session.user_id), generated_test_title, Some(<<>>),
                                "pre", access_key)
    IN  /\ session.authenticated
        /\ session.role = Some("teacher")
        /\ generated_questions # <<>>
        /\ session' = [session EXCEPT
                          !.buckets = allow_action_buckets("ai_save_test", Some(SaveLimit))]
        /\ allowed' = allowed_after("ai_save_test", value)
        /\ IF ~value
           THEN /\ result' = Raise("Save as Test", StError,
                                   "Rate limit reached. Please wait before saving again.")
                /\ UNCHANGED <<db, requests>>
           ELSE /\ create_test(Get(session.user_id), generated_test_title, Some(<<>>),
                               "pre", access_key)
                /\ requests' = IF r.cls # OK THEN requests
                               ELSE requests \cup {[op |-> "Save as Test",
                                                    test_id |-> r.value.id,
                                                    questions |-> generated_questions,
                                                    added |-> 0]}
        /\ UNCHANGED <<auth, generation, clock>>

\* One turn of the loop over the generated questions; after the last one
\* the handler reports the saved test
SaveAsTest_add_question(req) ==
    LET q == req.questions[req.added + 1]
        r == add_question_result(req.test_id, q.options, q.correct, q.difficulty, req.added)
        outcome(cls, added) ==
            [op |-> "Save as Test", cls |-> cls, msg |-> r.msg, value |-> None,
             test_id |-> req.test_id, questions |-> req.questions, added |-> added]
    IN  /\ req.op = "Save as Test"
        /\ IF r.cls # OK
           THEN /\ result' = outcome(StError, req.added)
                /\ requests' = requests \ {req}
                /\ UNCHANGED db
           ELSE /\ questions' = questions \cup {r.value}
                /\ nextQuestionId' = nextQuestionId + 1
                /\ UNCHANGED <<users, tests, attempts, nextTestId, nextAttemptId>>
                /\ IF req.added + 1 < Len(req.questions)
                   THEN /\ result' = r
                        /\ requests' = (requests \ {req})
                                          \cup {[req EXCEPT !.added = req.added + 1]}
                   ELSE /\ result' = outcome(OK, req.added + 1)
                        /\ requests' = requests \ {req}
        /\ UNCHANGED <<auth, generation, session, clock, allowed>>

----------------------------------------------------------------------------
(* Inputs of the calls *)

\* string.ascii_uppercase + string.digits, cut down to two characters
KeyAlphabet == {"A", "7"}

RECURSIVE StringsOfLen(_, _)
StringsOfLen(chars, n) ==
    IF n = 0 THEN {<<>>}
    ELSE {<<c>> \o s : c \in chars, s \in StringsOfLen(chars, n - 1)}

StringsUpTo(chars, n) == UNION {StringsOfLen(chars, k) : k \in 0..n}

\* The values generate_access_key(KeyLen) can return
generate_access_key == StringsOfLen(KeyAlphabet, KeyLen)

\* What a caller can type as an access key
KeyInputs == StringsUpTo({"A", "a", "7", " "}, KeyLen + 1)

\* The registered users: one teacher and one student.  The Create Test page
\* stops unless the session's role is "teacher"; the Take Test, Dashboard and
\* Attempt Results pages pass the id of whoever is logged in.
RegisteredUsers == {[id |-> 1, role |-> "teacher"], [id |-> 2, role |-> "student"]}
Callers == {u.id : u \in RegisteredUsers}
Teachers == {u.id : u \in {x \in RegisteredUsers : x.role = "teacher"}}
TestIdInputs == 1..(MaxTests + 1)
QuestionIdInputs == 1..MaxQuestions
AttemptIdInputs == 1..(MaxAttempts + 1)
Times == {1}

DefaultTitle == <<"T">>

ValidOptions == <<<<"A">>, <<"B">>, <<"a">>, <<"b">>>>
CorrectAnswers == {0, 3}
AnswerValues == {-1, 0, 3, 4}

AnswersInputs == UNION {[ks -> AnswerValues] : ks \in SUBSET QuestionIdInputs}

\* The authoring pages pass the current number of questions of the test as
\* the order of the next one.
NextOrder(test_id) == Len(QuestionCRUD_get_test_questions(test_id))

----------------------------------------------------------------------------
(* Specification Spec: the life cycle of tests, questions and attempts *)

Init ==
    /\ users = RegisteredUsers
    /\ tests = {}
    /\ questions = {}
    /\ attempts = {}
    /\ nextTestId = 1
    /\ nextQuestionId = 1
    /\ nextAttemptId = 1
    /\ result = Return("init", None)
    /\ nextUserId = Cardinality(RegisteredUsers) + 1
    /\ ai = NoGeneration
    /\ requests = {}
    /\ session = FreshSession
    /\ clock = 0
    /\ allowed = <<>>

Step(maxTests, maxQuestions, maxAttempts) ==
    \/ /\ nextTestId <= maxTests
       /\ \E u \in Teachers, key \in generate_access_key :
            create_test(u, DefaultTitle, None, "pre", key)
       /\ UNCHANGED <<auth, generation, web>>
    \/ /\ nextQuestionId <= maxQuestions
       /\ \E t \in TestIdInputs, c \in CorrectAnswers :
            add_question(t, ValidOptions, c, "easy", NextOrder(t))
       /\ UNCHANGED <<auth, generation, web>>
    \/ /\ \E key \in KeyInputs : get_test_by_key(key)
       /\ UNCHANGED <<auth, generation, web>>
    \/ /\ \E t \in TestIdInputs, u \in Callers : publish_test(t, u)
       /\ UNCHANGED <<auth, generation, web>>
    \/ /\ \E t \in TestIdInputs, u \in Callers, title \in {None, Some(DefaultTitle)} :
               update_test_metadata(t, u, title, None, None)
       /\ UNCHANGED <<auth, generation, web>>
    \/ /\ \E t \in TestIdInputs, u \in Callers : delete_test(t, u)
       /\ UNCHANGED <<auth, generation, web>>
    \/ /\ \E t \in TestIdInputs, u \in Callers : start_attempt(t, u)
       /\ UNCHANGED <<auth, generation, web>>
    \/ /\ nextAttemptId <= maxAttempts
       /\ \E t \in TestIdInputs, u \in Callers, ans \in AnswersInputs, now \in Times :
            submit_attempt(t, u, ans, now)
       /\ UNCHANGED <<auth, generation, web>>
    \/ /\ \E a \in AttemptIdInputs, u \in Callers : get_attempt_results(a, u)
       /\ UNCHANGED <<auth, generation, web>>
    \/ /\ \E t \in TestIdInputs, flag \in {0, 1} : Admin_set_published(t, flag)
       /\ UNCHANGED <<auth, generation, web>>
    \/ /\ \E t \in TestIdInputs : Admin_delete_test(t)
       /\ UNCHANGED <<auth, generation, web>>
    \/ /\ \E q \in QuestionIdInputs : Admin_delete_question(q)
       /\ UNCHANGED <<auth, generation, web>>

Next == Step(MaxTests, MaxQuestions, MaxAttempts)

Spec == Init /\ [][Next]_vars

\* The same operations on a single test that can collect several attempts
NextAttempts == Step(OneTest, MaxQuestions, ManyAttempts)

SpecAttempts == Init /\ [][NextAttempts]_vars

\* Editing the metadata of tests that have a question and an attempt
OptionalTitles == {None, Some(<<" ", "U", "\t">>)}
OptionalDescriptions == {None, Some(<<"D", " ">>)}
OptionalTestTypes == {None, Some("post"), Some("quiz")}

\* Every question of the test answered with option 0
AllZero(test_id) == [q \in {x.id : x \in {y \in questions : y.test_id = test_id}} |-> 0]

NextMetadata ==
    \/ /\ nextTestId <= MaxTests
       /\ \E u \in Teachers, key \in generate_access_key :
            create_test(u, DefaultTitle, None, "pre", key)
       /\ UNCHANGED <<auth, generation, web>>
    \/ /\ \E t \in TestIdInputs, u \in Callers, title \in OptionalTitles,
             d \in OptionalDescriptions, ty \in OptionalTestTypes :
               update_test_metadata(t, u, title, d, ty)
       /\ UNCHANGED <<auth, generation, web>>
    \/ /\ \E t \in TestIdInputs, u \in Callers : publish_test(t, u)
       /\ UNCHANGED <<auth, generation, web>>
    \/ /\ nextQuestionId <= OneQuestion
       /\ \E t \in TestIdInputs : add_question(t, ValidOptions, 0, "easy", NextOrder(t))
       /\ UNCHANGED <<auth, generation, web>>
    \/ /\ nextAttemptId <= MaxAttempts
       /\ \E t \in TestIdInputs, u \in Callers, now \in Times :
            submit_attempt(t, u, AllZero(t), now)
       /\ UNCHANGED <<auth, generation, web>>

SpecMetadata == Init /\ [][NextMetadata]_vars

----------------------------------------------------------------------------
(* Specification SpecAuthoring: authoring with inputs the validation rejects *)

TestTypeInputs == {"pre", "post", "quiz"}
DifficultyInputs == {"easy", "expert"}
CorrectAnswerInputs == {-1, 0, 3, 4}

\* Two of the options differ only by a trailing blank
PaddedOptions == <<<<"A">>, <<"A", " ">>, <<"a">>, <<"b">>>>
ThreeOptions == <<<<"A">>, <<"B">>, <<"a">>>>
OptionsInputs == {ValidOptions, PaddedOptions, ThreeOptions}

OrderInputs(test_id) == {-1, NextOrder(test_id)}

NextAuthoring ==
    \/ /\ nextTestId <= MaxTests
       /\ \E u \in Teachers, ty \in TestTypeInputs, key \in generate_access_key :
            create_test(u, DefaultTitle, None, ty, key)
       /\ UNCHANGED <<auth, generation, web>>
    \/ /\ nextQuestionId <= MaxQuestions
       /\ \E t \in TestIdInputs, c \in CorrectAnswers :
            add_question(t, ValidOptions, c, "easy", NextOrder(t))
       /\ UNCHANGED <<auth, generation, web>>
    \/ /\ \E t \in TestIdInputs, u \in Callers : publish_test(t, u)
       /\ UNCHANGED <<auth, generation, web>>
    \/ /\ \E t \in TestIdInputs, u \in Callers :
               update_test_metadata(t, u, Some(DefaultTitle), None, None)
       /\ UNCHANGED <<auth, generation, web>>
    \/ /\ \E t \in TestIdInputs, u \in Callers : delete_test(t, u)
       /\ UNCHANGED <<auth, generation, web>>
    \/ /\ \E t \in TestIdInputs, flag \in {0, 1} : Admin_set_published(t, flag)
       /\ UNCHANGED <<auth, generation, web>>

SpecAuthoring == Init /\ [][NextAuthoring]_vars

----------------------------------------------------------------------------
(* Specification SpecQuestions: adding and removing the questions of tests *)

NextQuestions ==
    \/ /\ nextTestId <= MaxTests
       /\ \E u \in Teachers, key \in generate_access_key :
            create_test(u, DefaultTitle, None, "pre", key)
       /\ UNCHANGED <<auth, generation, web>>
    \/ /\ nextQuestionId <= MaxQuestions + 1
       /\ \E t \in TestIdInputs, opts \in OptionsInputs, c \in CorrectAnswerInputs,
             d \in DifficultyInputs :
            \E o \in OrderInputs(t) : add_question(t, opts, c, d, o)
       /\ UNCHANGED <<auth, generation, web>>
    \/ /\ \E q \in 1..(MaxQuestions + 1) : Admin_delete_question(q)
       /\ UNCHANGED <<auth, generation, web>>
    \/ /\ \E t \in TestIdInputs, u \in Callers : delete_test(t, u)
       /\ UNCHANGED <<auth, generation, web>>

SpecQuestions == Init /\ [][NextQuestions]_vars

----------------------------------------------------------------------------
(* Specification SpecAuth: registration and login *)

MaxUsers == 2

UsernameInputs ==
    {<<"a", "b", "7">>, <<" ", "a", "b", "7">>, <<"A", "b", "7">>, <<"a", "b">>,
     <<"a", "b", "%">>}

EmailInputs ==
    {<<"a", "@", "b", ".", "a", "b">>, <<"a", "@", "b", ".", "a", "b", " ">>,
     <<"b", "@", "b", ".", "a", "b">>, <<"a", "@", "b">>}

PasswordInputs ==
    {<<"A", "b", "b", "b", "b", "b", "b", "7">>, <<"B", "a", "a", "a", "a", "a", "a", "7">>,
     <<"a", "b", "b", "b", "b", "b", "b", "7">>, <<"A", "b", "7">>}

RoleInputs == {"teacher", "student", "admin"}

\* The values bcrypt.gensalt can return
Salts == {1, 2}

InitAuth ==
    /\ users = {}
    /\ tests = {}
    /\ questions = {}
    /\ attempts = {}
    /\ nextTestId = 1
    /\ nextQuestionId = 1
    /\ nextAttemptId = 1
    /\ result = Return("init", None)
    /\ nextUserId = 1
    /\ ai = NoGeneration
    /\ requests = {}
    /\ session = FreshSession
    /\ clock = 0
    /\ allowed = <<>>

NextAuth ==
    \/ /\ nextUserId <= MaxUsers + 1
       /\ \E username \in UsernameInputs, email \in EmailInputs, password \in PasswordInputs,
             role \in RoleInputs, salt \in Salts :
            register_user(username, email, password, role, salt)
       /\ UNCHANGED <<generation, web>>
    \/ /\ \E username \in UsernameInputs, password \in PasswordInputs :
            login_user(username, password)
       /\ UNCHANGED <<generation, web>>
    \/ /\ \E u \in 1..(MaxUsers + 1) : Database_deactivate_user(u)
       /\ UNCHANGED <<generation, web>>

SpecAuth == InitAuth /\ [][NextAuth]_vars

(* Specification SpecImprovement: two tests that collect attempts of both
   users, and the comparison of their means *)

MaxScored == 4

NextImprovement ==
    \/ /\ nextTestId <= MaxTests
       /\ \E u \in Teachers : create_test(u, DefaultTitle, None, "pre", NatToStr(nextTestId))
       /\ UNCHANGED <<auth, generation, web>>
    \/ /\ nextQuestionId <= MaxQuestions
       /\ attempts = {}
       /\ \E t \in TestIdInputs : add_question(t, ValidOptions, 0, "easy", NextOrder(t))
       /\ UNCHANGED <<auth, generation, web>>
    \/ /\ nextAttemptId <= MaxScored
       /\ \E t \in TestIdInputs, u \in Callers, ans \in AnswersInputs, now \in Times :
            submit_attempt(t, u, ans, now)
       /\ UNCHANGED <<auth, generation, web>>
    \/ /\ \E u \in Callers, pre \in TestIdInputs, post \in TestIdInputs :
            calculate_improvement(u, pre, post)
       /\ UNCHANGED <<auth, generation, web>>

SpecImprovement == Init /\ [][NextImprovement]_vars

(* Specification SpecSanitize: sanitize_string applied to short texts *)

MaxText == 3

NextSanitize ==
    \E text \in {None} \cup {Some(t) : t \in StringsUpTo({" ", "\t", "NUL", "a"}, MaxText)},
       max_length \in 0..MaxText :
        sanitize_string_call(text, max_length)

SpecSanitize == Init /\ [][NextSanitize]_vars

(* Specification SpecSubmitRace: submissions whose two reads of the questions
   are interleaved with the authoring of the test *)

NextSubmitRace ==
    \/ /\ nextTestId <= OneTest
       /\ \E u \in Teachers, key \in generate_access_key :
            create_test(u, DefaultTitle, None, "pre", key)
       /\ UNCHANGED <<auth, generation, web>>
    \/ /\ nextQuestionId <= MaxQuestions
       /\ \E t \in TestIdInputs, c \in CorrectAnswers :
            add_question(t, ValidOptions, c, "easy", NextOrder(t))
       /\ UNCHANGED <<auth, generation, web>>
    \/ /\ \E q \in QuestionIdInputs : Admin_delete_question(q)
       /\ UNCHANGED <<auth, generation, web>>
    \/ /\ \E t \in TestIdInputs : Admin_delete_test(t)
       /\ UNCHANGED <<auth, generation, web>>
    \/ /\ nextAttemptId + Cardinality(requests) <= MaxAttempts
       /\ \E t \in TestIdInputs, u \in Callers, ans \in AnswersInputs :
            submit_attempt_validate(t, u, ans)
       /\ UNCHANGED <<auth, generation>>
    \/ /\ \E req \in requests, now \in Times : submit_attempt_create(req, now)
       /\ UNCHANGED <<auth, generation>>

SpecSubmitRace == Init /\ [][NextSubmitRace]_vars

(* Specification SpecRegisterRace: registrations that look up the duplicates
   before any of them inserts *)

NextRegisterRace ==
    \/ /\ nextUserId + Cardinality(requests) <= MaxUsers + 1
       /\ \E username \in UsernameInputs, email \in EmailInputs, salt \in Salts :
            register_user_check(username, email, <<"A", "b", "b", "b", "b", "b", "b", "7">>,
                                "student", salt)
       /\ UNCHANGED generation
    \/ /\ \E req \in requests : register_user_insert(req)
       /\ UNCHANGED generation

SpecRegisterRace == InitAuth /\ [][NextRegisterRace]_vars

(* Specification SpecRateLimit: the login page of one browser session, with
   the user logging in and out and time passing *)

MaxClock == 90
MaxAllowed == 4

\* The limits the login page passes for its two keys (10 and 5 in app.py),
\* drawn smaller so that a refusal is a few calls away
LoginLimit == 3
RegisterLimit == 2

LimitOf(key) == IF key = "login" THEN LoginLimit ELSE RegisterLimit

NextRateLimit ==
    \/ /\ ~session.authenticated
       /\ \A k \in DOMAIN allowed : allowed[k].n < MaxAllowed
       /\ \E key \in {"login", "register"} : allow_action(key, Some(LimitOf(key)))
    \/ /\ ~session.authenticated
       /\ result.op = "allow_action" /\ result.key = "login" /\ result.value
       /\ \E u \in RegisteredUsers : SessionManager_login(u.id, u.role)
    \/ /\ session.authenticated
       /\ SessionManager_logout
    \/ /\ clock < MaxClock
       /\ Tick(30)

SpecRateLimit == Init /\ [][NextRateLimit]_vars

(* Specification SpecWizard: one browser session in which the registered
   users log in and out and visit the Take Test and Create Test pages *)

WizardUsers == RegisteredUsers \cup {[id |-> 3, role |-> "teacher"]}

InitWizard ==
    /\ users = WizardUsers
    /\ tests = {}
    /\ questions = {}
    /\ attempts = {}
    /\ nextTestId = 1
    /\ nextQuestionId = 1
    /\ nextAttemptId = 1
    /\ result = Return("init", None)
    /\ nextUserId = Cardinality(WizardUsers) + 1
    /\ ai = NoGeneration
    /\ requests = {}
    /\ session = FreshSession
    /\ clock = 0
    /\ allowed = <<>>

NextWizard ==
    \/ /\ ~session.authenticated
       /\ \E u \in users : SessionManager_login(u.id, u.role)
    \/ /\ session.authenticated
       /\ SessionManager_logout
    \/ \E typed \in {<<>>, <<"a">>, <<"7">>} : TakeTest_start(typed)
    \/ /\ nextAttemptId <= MaxAttempts
       /\ \E current_answers \in [SnapshotIds -> {0, 3}] : TakeTest_submit(current_answers, 1)
    \/ /\ nextTestId <= MaxTests
       /\ \E key \in generate_access_key : CreateTest_create_test(<<"T">>, None, "pre", key)
    \/ /\ nextQuestionId <= MaxQuestions
       /\ CreateTest_add_question(<<<<"A">>, <<"B">>, <<"a">>, <<"b">>>>, 0, "easy")
    \/ CreateTest_publish_test

SpecWizard == InitWizard /\ [][NextWizard]_vars

(* Specification SpecTake: a session on the Take Test page while the test is
   authored from other sessions and from the Admin page *)

NextTake ==
    \/ /\ ~session.authenticated
       /\ \E u \in users : SessionManager_login(u.id, u.role)
    \/ \E typed \in {<<"a">>, <<"7">>} : TakeTest_start(typed)
    \/ /\ nextAttemptId <= MaxAttempts
       /\ \E current_answers \in [SnapshotIds -> {0, 3}] : TakeTest_submit(current_answers, 1)
    \/ /\ nextTestId <= OneTest
       /\ \E u \in Teachers, key \in generate_access_key :
            create_test(u, <<"T">>, None, "pre", key)
       /\ UNCHANGED <<auth, generation, web>>
    \/ /\ nextQuestionId <= MaxQuestions + 1
       /\ \E t \in TestIds :
            add_question(t, <<<<"A">>, <<"B">>, <<"a">>, <<"b">>>>, 0, "easy", NextOrder(t))
       /\ UNCHANGED <<auth, generation, web>>
    \/ /\ \E t \in TestIds, u \in Teachers : publish_test(t, u)
       /\ UNCHANGED <<auth, generation, web>>
    \/ /\ \E t \in TestIds, u \in Teachers :
            update_test_metadata(t, u, Some(<<"U">>), None, None)
       /\ UNCHANGED <<auth, generation, web>>
    \/ /\ \E q \in questions : Admin_delete_question(q.id)
       /\ UNCHANGED <<auth, generation, web>>

SpecTake == Init /\ [][NextTake]_vars

(* Specification SpecValidate: _validate_questions applied to decoded lists *)

MaxItems == 3

GoodItem ==
    [kind |-> "dict", stem |-> Some([i \in 1..StemMinLength |-> "a"]), options |-> ValidOptions, correct |-> Some(3),
     explanation |-> [i \in 1..ExplanationMinLength |-> "b"], topic_tag |-> <<"a">>, difficulty |-> "easy"]

\* A well-formed item whose strings carry blanks around them
PaddedItem ==
    [GoodItem EXCEPT !.stem = Some(<<" ">> \o Get(GoodItem.stem)), !.correct = Some(0),
                     !.explanation = GoodItem.explanation \o <<" ">>,
                     !.topic_tag = <<" ", "b">>, !.options = [i \in 1..4 |-> ValidOptions[i] \o <<" ">>]]

\* The well-formed items and items that break one rule of the schema each
ItemInputs ==
    {GoodItem, PaddedItem,
     [GoodItem EXCEPT !.kind = "str"],
     [GoodItem EXCEPT !.stem = None],
     [GoodItem EXCEPT !.stem = Some(SubSeq(Get(GoodItem.stem), 2, StemMinLength) \o <<" ">>)],
     [GoodItem EXCEPT !.options = ThreeOptions],
     [GoodItem EXCEPT !.options = PaddedOptions],
     [GoodItem EXCEPT !.correct = None],
     [GoodItem EXCEPT !.correct = Some(-1)],
     [GoodItem EXCEPT !.correct = Some(4)],
     [GoodItem EXCEPT !.explanation = SubSeq(GoodItem.explanation, 2, ExplanationMinLength) \o <<" ">>],
     [GoodItem EXCEPT !.topic_tag = <<" ">>],
     [GoodItem EXCEPT !.difficulty = "expert"]}

ItemLists(items, maxLen) == UNION {[1..k -> items] : k \in 0..maxLen}

InitValidate ==
    /\ users = RegisteredUsers
    /\ tests = {}
    /\ questions = {}
    /\ attempts = {}
    /\ nextTestId = 1
    /\ nextQuestionId = 1
    /\ nextAttemptId = 1
    /\ result = Return("init", None)
    /\ nextUserId = Cardinality(RegisteredUsers) + 1
    /\ requests = {}
    /\ session = FreshSession
    /\ clock = 0
    /\ allowed = <<>>
    /\ ai \in {[pc |-> "validate", data |-> d, expected_count |-> n] :
                 d \in {None} \cup {Some(l) : l \in ItemLists(ItemInputs, MaxItems)},
                 n \in 0..5}

NextValidate == validate_questions_call

SpecValidate == InitValidate /\ [][NextValidate]_vars

(* Specification SpecGeneration: calls of generate_questions, the provider
   answering each attempt in any way and every step of a running call being
   taken in the end *)

ArgsInputs ==
    [topic : {<<"a">>, <<" ">>}, syllabus : {<<"a">>, <<" ">>},
     num_questions : {0, 2, 5, 21}, difficulty : DifficultyInputs,
     language : {<<"h", "i", "n", "d", "i">>, <<" ", "H", "i", "n", "d", "i">>, <<"a", "b">>},
     configured : BOOLEAN]

ResponseInputs ==
    {[kind |-> "error", data |-> None], [kind |-> "text", data |-> None],
     [kind |-> "json", data |-> None]}
        \cup {[kind |-> "json", data |-> Some(l)] :
                l \in ItemLists({PaddedItem, [GoodItem EXCEPT !.correct = Some(4)]}, 2)}

NextGeneration ==
    \/ \E args \in ArgsInputs : generate_questions(args)
    \/ \E response \in ResponseInputs : generate_questions_attempt(response)
    \/ generate_questions_sleep

SpecGeneration ==
    /\ Init
    /\ [][NextGeneration]_vars
    /\ WF_vars(\E response \in ResponseInputs : generate_questions_attempt(response))
    /\ WF_vars(generate_questions_sleep)

(* Specification SpecSave: a teacher saves generated questions as tests *)

MaxGenerated == 2

\* A question that passes _validate_questions with a control character in
\* one option
ControlItem ==
    [kind |-> "dict", stem |-> Some([i \in 1..StemMinLength |-> "a"]),
     options |-> <<<<"A">>, <<"A", "NUL">>, <<"a">>, <<"b">>>>, correct |-> Some(0),
     explanation |-> [i \in 1..ExplanationMinLength |-> "b"], topic_tag |-> <<"a">>,
     difficulty |-> "easy"]

NextSave ==
    \/ /\ ~session.authenticated
       /\ \E u \in users : SessionManager_login(u.id, u.role)
    \/ /\ requests = {}
       /\ nextTestId <= MaxTests
       /\ \E n \in 1..MaxGenerated :
            \E data \in [1..n -> {GoodItem, PaddedItem, ControlItem}],
               key \in generate_access_key :
                 /\ validate_questions(Some(data), n).cls = OK
                 /\ SaveAsTest_create_test(validate_questions(Some(data), n).value,
                                           <<"T">>, key)
    \/ \E req \in requests : SaveAsTest_add_question(req)

SpecSave == Init /\ [][NextSave]_vars

----------------------------------------------------------------------------
(* Claims *)

QuestionsOf(test_id) == {q \in questions : q.test_id = test_id}

\* C1: a submitted attempt on a test with N >= 1 questions scores 100*k/N,
\* k being the number of questions whose stored answer is the question's
\* correct_answer; the score lies in 0..100.
C1_ScoreIsPercentCorrect ==
    (result.op = "submit_attempt" /\ result.cls = OK) =>
        LET a == result.value
            N == Cardinality(QuestionsOf(a.test_id))
            k == Cardinality({q \in QuestionsOf(a.test_id) :
                                /\ str(q.id) \in DOMAIN a.answers
                                /\ a.answers[str(q.id)] = q.correct_answer})
        IN  /\ a \in attempts
            /\ N >= 1
            /\ a.score.num * N = 100 * k * a.score.den
            /\ 0 <= a.score.num
            /\ a.score.num <= 100 * a.score.den

\* One of two questions answered correctly scored 50.
C1_Witness ==
    /\ result.op = "submit_attempt"
    /\ result.cls = OK
    /\ Cardinality(QuestionsOf(result.value.test_id)) = 2
    /\ result.value.score = [num |-> 50, den |-> 1]

BadSubmission(test_id, answers) ==
    \/ QuestionsOf(test_id) = {}
    \/ DOMAIN answers # {q.id : q \in QuestionsOf(test_id)}
    \/ \E k \in DOMAIN answers : answers[k] \notin 0..3

\* What submit_attempt decides for every input, and what a call changes
C2_Decision ==
    \A t \in TestIdInputs, u \in Callers, ans \in AnswersInputs, now \in Times :
        LET r == submit_attempt_result(t, u, ans, now)
        IN  /\ BadSubmission(t, ans) => r.cls = ValidationError
            /\ r.cls = OK => ~BadSubmission(t, ans)

C2_Effect ==
    result'.op = "submit_attempt" =>
        IF result'.cls = OK
        THEN /\ result'.value \notin attempts
             /\ attempts' = attempts \cup {result'.value}
        ELSE attempts' = attempts

\* C2: submit_attempt raises ValidationError and creates no attempt when the
\* test has no questions, the answers' keys are not exactly the test's
\* question ids, or a value is outside 0..3; an attempt row appears only
\* when none of these hold, and then exactly one.
C2_SubmitValidation == []C2_Decision /\ [][C2_Effect]_vars

\* A submission with a missing or stray key was rejected.
C2_Witness ==
    /\ result.op = "submit_attempt"
    /\ result.cls = ValidationError
    /\ result.msg = "All questions must be answered"
    /\ attempts = {}

\* C3: no attempt is started or submitted on a test that is not published.
C3_DraftNotAttemptable ==
    (result.op \in {"start_attempt", "submit_attempt"} /\ result.cls = OK) =>
        \E t \in tests : t.id = result.value.test_id /\ t.is_published = 1

\* C4: get_attempt_results returns the attempt's score and breakdown to its
\* owner only; any other caller and any unknown attempt id gets a
\* ValidationError and no data.
C4_ResultsOnlyForOwner ==
    \A a \in AttemptIdInputs, u \in Callers :
        LET r == get_attempt_results_result(a, u)
        IN  IF \E row \in attempts : row.id = a /\ row.student_id = u
            THEN /\ r.cls = OK
                 /\ \E row \in attempts :
                       /\ row.id = a
                       /\ r.value.score = row.score
                       /\ r.value.attempt_id = a
            ELSE /\ r.cls = ValidationError
                 /\ r.value = None
                 /\ r.msg = IF \E row \in attempts : row.id = a
                            THEN "Unauthorized to view this attempt"
                            ELSE "Attempt not found"

\* A caller who is not the owner asked for an existing attempt and was refused.
C4_Witness ==
    /\ result.op = "get_attempt_results"
    /\ result.msg = "Unauthorized to view this attempt"
    /\ attempts # {}

\* typed is the access key in some mix of upper and lower case, with blanks
\* before and after it
Spells(typed, access_key) ==
    \E lead \in 0..Len(typed) :
        /\ lead + Len(access_key) <= Len(typed)
        /\ \A i \in 1..Len(typed) :
              IF i <= lead \/ i > lead + Len(access_key)
              THEN typed[i] = " "
              ELSE typed[i] \in {access_key[i - lead], LowerChar(access_key[i - lead])}

\* C5: get_test_by_key fails with the same error, class and message, for the
\* key of an unpublished test and for a key that no test has.
C5_SameFailure ==
    \A k1 \in KeyInputs, k2 \in KeyInputs :
        ( /\ \E t \in tests : t.is_published = 0 /\ Spells(k1, t.access_key)
          /\ k2 # <<>>
          /\ \A t \in tests : ~Spells(k2, t.access_key) )
        => /\ get_test_by_key_result(k1).cls = get_test_by_key_result(k2).cls
           /\ get_test_by_key_result(k1).msg = get_test_by_key_result(k2).msg

\* C6: get_test_by_key returns a published test for every spelling of its
\* access key (any letter case, surrounding blanks) and raises
\* ValidationError for the empty key.
C6_KeyLookupIgnoresCase ==
    \A k \in KeyInputs :
        /\ k = <<>> => get_test_by_key_result(k).cls = ValidationError
        /\ \A t \in tests :
              (t.is_published = 1 /\ Spells(k, t.access_key))
              => get_test_by_key_result(k) = Return("get_test_by_key", t)

\* A lookup returned a published test while another, unpublished test exists.
C6_Witness ==
    /\ result.op = "get_test_by_key"
    /\ result.cls = OK
    /\ result.value \in tests
    /\ \E t \in tests : t.is_published = 0

\* What one step may do to the attempts table
C7_Step ==
    /\ \A a \in attempts :
          \/ a \in attempts'
          \/ /\ \A b \in attempts' : b.id # a.id
             /\ a.test_id \in {t.id : t \in tests}
             /\ a.test_id \notin {t.id : t \in tests'}
    /\ attempts' \ attempts # {} => (result'.op = "submit_attempt" /\ result'.cls = OK)
    /\ (result'.op = "submit_attempt" /\ result'.cls = OK) =>
          \E row \in attempts' \ attempts :
              /\ attempts' = attempts \cup {row}
              /\ row = result'.value
              /\ row.is_submitted = 1
              /\ row.completed_at # None

\* C7: attempts are append-only.  A row that exists stays as it is or goes
\* away together with its test; a successful submit_attempt adds exactly one
\* row, submitted and with a completion timestamp, and nothing else adds rows.
C7_AppendOnly == [][C7_Step]_vars

\* A second attempt was submitted while the first one is still stored.
C7_Witness ==
    /\ result.op = "submit_attempt"
    /\ result.cls = OK
    /\ Cardinality(attempts) = 2

\* What publish_test decides for every input, and what a call changes
C8_Decision ==
    \A t \in TestIdInputs, u \in Callers :
        LET r == publish_test_result(t, u)
        IN  IF \E row \in tests : row.id = t /\ row.teacher_id = u
            THEN r.cls = OK /\ r.value.id = t
            ELSE r.cls = ValidationError

C8_Effect ==
    result'.op = "publish_test" =>
        /\ UNCHANGED <<users, questions, attempts>>
        /\ IF result'.cls = OK
           THEN \E old \in tests :
                   /\ old.id = result'.value.id
                   /\ result'.value = [old EXCEPT !.is_published = 1]
                   /\ tests' = (tests \ {old}) \cup {result'.value}
           ELSE tests' = tests

\* C8: publish_test raises ValidationError and changes nothing when the test
\* is missing or belongs to another teacher; otherwise it sets is_published
\* on that test and changes nothing else, also when it was published before.
C8_PublishOwnTestOnly == []C8_Decision /\ [][C8_Effect]_vars

\* A test was published while another test stays a draft.
C8_Witness ==
    /\ result.op = "publish_test"
    /\ result.cls = OK
    /\ result.value \in tests
    /\ \E t \in tests : t.id # result.value.id /\ t.is_published = 0

\* What update_test_metadata returns for every input, and what a call changes
C9_Decision ==
    \A t \in TestIdInputs, u \in Callers, title \in OptionalTitles,
       d \in OptionalDescriptions, ty \in OptionalTestTypes :
        LET r == update_test_metadata_result(t, u, title, d, ty)
            own == {row \in tests : row.id = t /\ row.teacher_id = u}
        IN  IF own = {} \/ (ty # None /\ Get(ty) \notin {"pre", "post"})
            THEN r.cls = ValidationError
            ELSE /\ r.cls = OK
                 /\ \A f \in {"id", "teacher_id", "access_key", "is_published"} :
                       r.value[f] = Get(own)[f]
                 /\ title = None => r.value.title = Get(own).title
                 /\ d = None => r.value.description = Get(own).description
                 /\ IF ty = None THEN r.value.test_type = Get(own).test_type
                                 ELSE r.value.test_type = Get(ty)
                 /\ title # None =>
                       r.value.title = sanitize_string(Get(title), TitleMaxLength).val
                 /\ d # None =>
                       r.value.description
                           = Some(sanitize_string(Get(d), DescriptionMaxLength).val)

C9_Effect ==
    result'.op = "update_test_metadata" =>
        /\ UNCHANGED <<users, questions, attempts>>
        /\ IF result'.cls = OK
           THEN \E old \in tests :
                   /\ old.id = result'.value.id
                   /\ tests' = (tests \ {old}) \cup {result'.value}
           ELSE tests' = tests

\* C9: update_test_metadata changes, on the caller's own test, the fields
\* among title, description and test_type that were passed and nothing else;
\* with no field it writes nothing and returns the test; for a missing test,
\* another teacher's test or a test_type other than pre/post it raises
\* ValidationError and nothing changes.
C9_MetadataUpdateFrame == []C9_Decision /\ [][C9_Effect]_vars

\* A published test with a question and an attempt got a new title and type
\* while the other test kept its own.
C9_Witness ==
    /\ result.op = "update_test_metadata"
    /\ result.cls = OK
    /\ result.value \in tests
    /\ result.value.title = <<"U">>
    /\ result.value.test_type = "post"
    /\ result.value.is_published = 1
    /\ \E q \in questions : q.test_id = result.value.id
    /\ \E a \in attempts : a.test_id = result.value.id
    /\ \E t \in tests : t.id # result.value.id /\ t.title = DefaultTitle

\* Referential integrity, what delete_test decides, and what a call changes
C10_Decision ==
    /\ \A q \in questions : q.test_id \in {t.id : t \in tests}
    /\ \A a \in attempts : a.test_id \in {t.id : t \in tests}
    /\ \A t \in TestIdInputs, u \in Callers :
          LET r == delete_test_result(t, u)
          IN  IF \E row \in tests : row.id = t /\ row.teacher_id = u
              THEN r.cls = OK
              ELSE r.cls = ValidationError

C10_Effect ==
    result'.op = "delete_test" =>
        IF result'.cls = OK
        THEN \E gone \in tests :
                /\ tests' = tests \ {gone}
                /\ questions' = {q \in questions : q.test_id # gone.id}
                /\ attempts' = {a \in attempts : a.test_id # gone.id}
        ELSE UNCHANGED <<tests, questions, attempts>>

\* C10: delete_test deletes the test only for its owner and takes the test's
\* questions and attempts with it; any other call raises ValidationError and
\* deletes nothing; every question and attempt refers to an existing test.
C10_DeleteCascades == []C10_Decision /\ [][C10_Effect]_vars

\* A test was deleted by its owner; the other test keeps its question.
C10_Witness ==
    /\ result.op = "delete_test"
    /\ result.cls = OK
    /\ nextAttemptId > 1
    /\ attempts = {}
    /\ Cardinality(tests) = 1
    /\ questions # {}

TestServiceOps ==
    {"create_test", "add_question", "get_test_by_key", "publish_test",
     "update_test_metadata", "delete_test"}

\* What create_test and publish_test decide for every input
C11_Decision ==
    /\ \A u \in Teachers, ty \in TestTypeInputs, key \in generate_access_key :
          LET r == create_test_result(u, DefaultTitle, None, ty, key)
          IN  /\ ty \notin {"pre", "post"} => r.cls = ValidationError
              /\ r.cls = OK => r.value.is_published = 0
    /\ \A t \in TestIdInputs, u \in Callers :
          publish_test_result(t, u).cls = OK
          => \E row \in tests : row.id = t /\ row.teacher_id = u

\* What a call of a TestService operation does to the published flags
C11_Effect ==
    result'.op \in TestServiceOps =>
        /\ \A new \in tests' :
              new.is_published = 1 =>
                 \/ \E old \in tests : old.id = new.id /\ old.is_published = 1
                 \/ /\ result'.op = "publish_test"
                    /\ result'.cls = OK
                    /\ result'.value = new
        /\ \A old \in tests, new \in tests' :
              (old.is_published = 1 /\ new.id = old.id) => new.is_published = 1
        /\ result'.op = "create_test" =>
              IF result'.cls = OK
              THEN /\ tests' = tests \cup {result'.value}
                   /\ result'.value.is_published = 0
              ELSE tests' = tests

\* C11: a test is unpublished when create_test returns it; TestService
\* operations make is_published true only through a successful publish_test
\* by the test's own teacher and never set it back to false; create_test with
\* a type other than pre/post raises ValidationError and persists nothing.
C11_PublishedOnlyByPublish == []C11_Decision /\ [][C11_Effect]_vars

\* create_test rejected a type while a published test exists.
C11_Witness ==
    /\ result.op = "create_test"
    /\ result.cls = ValidationError
    /\ result.msg = "test_type must be 'pre' or 'post'"
    /\ \E t \in tests : t.is_published = 1

\* What create_test decides when the generated key is taken, and what a call
\* changes
C12_Decision ==
    /\ \A t1 \in tests, t2 \in tests : t1.access_key = t2.access_key => t1 = t2
    /\ \A u \in Teachers, ty \in {"pre", "post"}, key \in generate_access_key :
          (\E t \in tests : t.access_key = key)
          => create_test_result(u, DefaultTitle, None, ty, key)
                = Raise("create_test", DatabaseError, "Failed to create test")

C12_Effect ==
    (result'.op = "create_test" /\ result'.cls = DatabaseError) =>
        /\ tests' = tests
        /\ nextTestId' = nextTestId

\* C12: no two persisted tests share an access key; when the generated key
\* is the key of an existing test, create_test does not draw another key: the
\* insert is rejected, DatabaseError is raised and the tests are unchanged.
C12_AccessKeysUnique == []C12_Decision /\ [][C12_Effect]_vars

\* create_test drew the key of an existing test and failed.
C12_Witness ==
    /\ result.op = "create_test"
    /\ result.cls = DatabaseError
    /\ Cardinality(tests) = 1

\* What register_user decides for every input, and what a call changes
C13_Decision ==
    /\ \A u1 \in users, u2 \in users :
          (u1.username = u2.username \/ u1.email = u2.email) => u1 = u2
    /\ \A username \in UsernameInputs, email \in EmailInputs, password \in PasswordInputs,
          role \in RoleInputs, salt \in Salts :
          LET r == register_user_result(username, email, password, role, salt)
          IN  IF \/ ~validate_username(username).ok
                 \/ validate_email(email).err # ""
                 \/ validate_password(password) # ""
                 \/ role \notin {"teacher", "student"}
                 \/ \E u \in users : u.username = strip(username) \/ u.email = strip(email)
              THEN r.cls = ValidationError
              ELSE /\ r.cls = OK
                   /\ r.value.username = strip(username)
                   /\ r.value.email = strip(email)
                   /\ r.value.role = role
                   /\ r.value.is_active = 1

C13_Effect ==
    result'.op = "register_user" =>
        IF result'.cls = OK
        THEN /\ result'.value \notin users
             /\ users' = users \cup {result'.value}
        ELSE users' = users

\* C13: register_user raises ValidationError and leaves the users unchanged
\* for an invalid username, email or password, a role other than teacher or
\* student, or a trimmed username or email that is already taken (compared
\* case-sensitively); usernames and emails stay pairwise distinct, and a
\* created user is active with the requested role.
C13_RegisterValidates == []C13_Decision /\ [][C13_Effect]_vars

\* A registration was refused because the name, typed with a leading blank,
\* is taken; a name differing only in case was accepted before.
C13_Witness ==
    /\ result.op = "register_user"
    /\ result.msg = "Username already exists"
    /\ Cardinality(users) = 2
    /\ \E u1 \in users, u2 \in users : u1.username # u2.username /\ upper(u1.username) = upper(u2.username)

\* What login_user returns for every input, and what a call changes
C14_Decision ==
    \A username \in UsernameInputs, password \in PasswordInputs :
        LET r == login_user_result(username, password)
            match == {u \in users : /\ u.username = username
                                    /\ u.is_active = 1
                                    /\ verify_password(password, u.password_hash)}
        IN  /\ r.cls = OK
            /\ IF match # {}
               THEN r.value = [ok |-> TRUE, user |-> match]
               ELSE r.value = [ok |-> FALSE, user |-> None]

C14_Effect == result'.op = "login_user" => UNCHANGED <<db, nextUserId>>

\* C14: login_user never raises; it returns (False, None) for an unknown
\* username, an inactive user or a wrong password, and (True, user) exactly
\* when the user exists, is active and the password verifies; it changes no
\* persisted state.
C14_LoginFailsSoftly == []C14_Decision /\ [][C14_Effect]_vars

\* A login failed while one registered user is inactive and another active.
C14_Witness ==
    /\ result.op = "login_user"
    /\ result.value.ok = FALSE
    /\ \E u \in users : u.is_active = 0
    /\ \E u \in users : u.is_active = 1

\* What start_attempt returns for every input, and what a call changes
C15_Decision ==
    \A t \in TestIdInputs, u \in Callers :
        LET r == start_attempt_result(t, u)
            qs == r.value.questions
            row(i) == CHOOSE q \in questions : q.id = qs[i].id
        IN  IF \E test \in tests : test.id = t /\ test.is_published = 1
            THEN /\ r.cls = OK
                 /\ r.value.test_id = t
                 /\ r.value.questions_count = Len(qs)
                 /\ {qs[i].id : i \in 1..Len(qs)} = {q.id : q \in QuestionsOf(t)}
                 /\ Len(qs) = Cardinality(QuestionsOf(t))
                 /\ \A i \in 1..Len(qs), j \in 1..Len(qs) :
                       i < j => row(i).order <= row(j).order
                 /\ \A i \in 1..Len(qs) :
                       DOMAIN qs[i] \cap {"correct_answer", "explanation"} = {}
            ELSE r.cls = ValidationError /\ r.value = None

C15_Effect == result'.op = "start_attempt" => UNCHANGED <<db, nextUserId>>

\* C15: start_attempt raises ValidationError for a missing or unpublished
\* test; otherwise it returns the test's questions in ascending order, with
\* questions_count their number and without correct_answer or explanation;
\* it creates no attempt and changes no persisted state.
C15_StartAttemptSnapshot == []C15_Decision /\ [][C15_Effect]_vars

\* An attempt was started on a published test with two questions.
C15_Witness ==
    /\ result.op = "start_attempt"
    /\ result.cls = OK
    /\ result.value.questions_count = 2
    /\ attempts = {}

\* What every stored question looks like
WellFormedQuestion(q) ==
    /\ Len(q.options) = 4
    /\ \A i \in 1..4, j \in 1..4 : i # j => q.options[i] # q.options[j]
    /\ \A i \in 1..4 : \A k \in 1..Len(q.options[i]) : q.options[i][k] \notin ControlChars
    /\ q.correct_answer \in 0..3
    /\ q.difficulty \in {"easy", "medium", "hard"}
    /\ q.order >= 0
    /\ \E t \in tests : t.id = q.test_id

\* What add_question decides for every input, and what a call changes
C16_Decision ==
    /\ \A q \in questions : WellFormedQuestion(q)
    /\ \A t \in TestIdInputs, opts \in OptionsInputs, c \in CorrectAnswerInputs,
          d \in DifficultyInputs :
          \A o \in OrderInputs(t) :
             LET r == add_question_result(t, opts, c, d, o)
                 clean == [i \in 1..Len(opts) |-> RemoveControl(strip(opts[i]))]
             IN  IF /\ Len(opts) = 4
                    /\ Cardinality({clean[i] : i \in 1..Len(opts)}) = 4
                    /\ c \in 0..3
                    /\ d \in {"easy", "medium", "hard"}
                    /\ o >= 0
                    /\ \E test \in tests : test.id = t
                 THEN /\ r.cls = OK
                      /\ r.value.options = clean
                      /\ r.value.test_id = t
                      /\ r.value.correct_answer = c
                      /\ r.value.order = o
                 ELSE r.cls \in {ValidationError, DatabaseError}

C16_Effect ==
    result'.op = "add_question" =>
        IF result'.cls = OK
        THEN /\ result'.value \notin questions
             /\ questions' = questions \cup {result'.value}
        ELSE questions' = questions

\* C16: every question persisted by add_question has exactly 4 pairwise
\* distinct sanitized options, a correct_answer in 0..3, a difficulty of the
\* enum, a non-negative order and the id of an existing test; when a check
\* fails add_question raises and persists nothing.
C16_QuestionsWellFormed == []C16_Decision /\ [][C16_Effect]_vars

\* Options that differ only by a trailing blank were rejected while the test
\* already has a question.
C16_Witness ==
    /\ result.op = "add_question"
    /\ result.msg = "Options must be unique"
    /\ questions # {}

\* C17: the order values of the questions of one test are pairwise distinct
\* and grow in the sequence the questions were added (the ids), when every
\* question is added with the current number of questions of its test as its
\* order and questions may be removed by QuestionCRUD.delete.
C17_OrdersUniqueAndIncreasing ==
    \A q1 \in questions, q2 \in questions :
        (q1.test_id = q2.test_id /\ q1.id < q2.id) => q1.order < q2.order

\* The per-item schema: a stem of at least 10 characters, exactly 4 options
\* that are distinct strings, a correct index in 0..3, an explanation of at
\* least 5 characters, a non-empty topic tag and a difficulty of the enum,
\* lengths counted without the blanks around the text.
PassesSchema(q) ==
    /\ q.kind = "dict"
    /\ q.stem # None /\ Len(strip(Get(q.stem))) >= 10
    /\ Len(q.options) = 4
    /\ \A i, j \in 1..Len(q.options) : i # j => strip(q.options[i]) # strip(q.options[j])
    /\ q.correct # None /\ Get(q.correct) \in 0..3
    /\ Len(strip(q.explanation)) >= 5
    /\ strip(q.topic_tag) # <<>>
    /\ q.difficulty \in {"easy", "medium", "hard"}

Passing(items) == {i \in 1..Len(items) : PassesSchema(items[i])}

\* The position in items of the j-th item that passes
NthPassing(items, j) ==
    CHOOSE i \in Passing(items) : Cardinality({k \in Passing(items) : k <= i}) = j

\* v is the item q with the blanks around its strings removed
SameQuestion(v, q) ==
    /\ v.stem = strip(Get(q.stem))
    /\ v.options = [i \in 1..4 |-> strip(q.options[i])]
    /\ v.correct = Get(q.correct)
    /\ v.explanation = strip(q.explanation)
    /\ v.topic_tag = strip(q.topic_tag)
    /\ v.difficulty = q.difficulty

\* max(1, floor(0.8 * n))
SurvivorsNeeded(n) ==
    LET f == CHOOSE k \in 0..n : 10 * k <= 8 * n /\ 8 * n < 10 * (k + 1)
    IN  IF f >= 1 THEN f ELSE 1

C18_Filter ==
    (ai.pc = "validated" /\ ai.data # None) =>
        LET items == Get(ai.data)
            survivors == Cardinality(Passing(items))
        IN  /\ result.cls \in {OK, ValidationError}
            /\ result.cls = ValidationError <=> survivors < SurvivorsNeeded(ai.expected_count)
            /\ result.cls = OK =>
                  /\ Len(result.value) = survivors
                  /\ \A j \in 1..survivors :
                        SameQuestion(result.value[j], items[NthPassing(items, j)])
            /\ Passing(items) = {} => result.cls = ValidationError

\* C18 as stated: _validate_questions(items, n) returns, in input order,
\* exactly the items that pass the schema and raises ValidationError exactly
\* when fewer than max(1, floor(0.8 * n)) items survive; a batch of only
\* well-formed items is returned whole, whatever its size, and a batch of
\* only malformed items always fails.
C18_WellFormedBatchReturnedWhole ==
    /\ C18_Filter
    /\ (ai.pc = "validated" /\ ai.data # None) =>
          LET items == Get(ai.data)
          IN  (items # <<>> /\ Passing(items) = 1..Len(items)) =>
                  (result.cls = OK /\ Len(result.value) = Len(items))

\* C18, amended: _validate_questions(items, n) returns, in input order,
\* exactly the items that pass the schema (with the blanks around their
\* strings removed) and raises ValidationError exactly when fewer than
\* max(1, floor(0.8 * n)) items survive; a batch of only malformed items
\* always fails, and a batch of only well-formed items is returned whole
\* when it holds at least max(1, floor(0.8 * n)) items.
C18_ValidateQuestions ==
    /\ C18_Filter
    /\ (ai.pc = "validated" /\ ai.data # None) =>
          LET items == Get(ai.data)
          IN  (/\ Passing(items) = 1..Len(items)
               /\ Len(items) >= SurvivorsNeeded(ai.expected_count)) =>
                  (result.cls = OK /\ Len(result.value) = Len(items))

\* Three items of which the second is malformed were validated against an
\* expected count of 3, and the two others came back.
C18_Witness ==
    /\ ai.pc = "validated"
    /\ ai.data # None
    /\ Len(Get(ai.data)) = 3
    /\ Passing(Get(ai.data)) = {1, 3}
    /\ ai.expected_count = 3
    /\ result.cls = OK
    /\ Len(result.value) = 2

\* The inputs generate_questions accepts
InputsValid(args) ==
    /\ strip(args.topic) # <<>>
    /\ strip(args.syllabus) # <<>>
    /\ args.difficulty \in {"easy", "medium", "hard"}
    /\ args.num_questions \in 1..20
    /\ lower(strip(args.language)) \in Languages

\* The provider's response makes the attempt succeed
ResponseUsable(response, n) ==
    /\ response.kind = "json"
    /\ response.data # None
    /\ Cardinality(Passing(Get(response.data))) >= SurvivorsNeeded(n)

\* Before the i-th wait the call has slept 1, 2, 4 seconds
WaitsDouble(waits) == \A i \in 1..Len(waits) : waits[i] = 2 ^ (i - 1)

C19_Decision ==
    /\ ai.calls <= 3
    /\ WaitsDouble(ai.waits)
    /\ ai.pc = "call" =>
          /\ ai.calls = Len(ai.errors) /\ Len(ai.waits) = ai.calls /\ ai.calls < 3
          /\ InputsValid(Get(ai.args)) /\ Get(ai.args).configured
    /\ ai.pc = "sleep" => ai.calls = Len(ai.errors) /\ Len(ai.waits) = ai.calls - 1
    /\ (ai.pc = "idle" /\ result.op = "generate_questions") =>
          IF InputsValid(Get(ai.args)) /\ Get(ai.args).configured
          THEN \/ /\ result.cls = OK
                  /\ ai.calls \in 1..3
                  /\ Len(ai.errors) = ai.calls - 1
                  /\ Len(ai.waits) = ai.calls - 1
               \/ /\ result.cls = ValidationError
                  /\ ai.calls = 3
                  /\ Len(ai.errors) = 3
                  /\ ai.waits = <<1, 2, 4>>
                  /\ result.msg = "Failed to generate questions: "
                  /\ result.last_err = ai.errors[3]
          ELSE result.cls = ValidationError /\ ai.calls = 0 /\ ai.waits = <<>>

C19_Effect ==
    /\ ai.pc = "idle" => (ai'.calls = 0 /\ ai'.pc \in {"idle", "call"})
    /\ ai.pc = "call" =>
          /\ ai'.calls = ai.calls + 1
          /\ \/ /\ ai'.pc = "idle"
                /\ result'.op = "generate_questions" /\ result'.cls = OK
                /\ \E response \in ResponseInputs :
                      /\ ResponseUsable(response, Get(ai.args).num_questions)
                      /\ Len(result'.value) = Cardinality(Passing(Get(response.data)))
             \/ /\ ai'.pc = "sleep"
                /\ Len(ai'.errors) = Len(ai.errors) + 1
                /\ ai'.waits = ai.waits
                /\ result' = result
    /\ ai.pc = "sleep" =>
          /\ ai'.calls = ai.calls
          /\ ai'.waits = Append(ai.waits, 2 ^ (ai.calls - 1))
          /\ ai'.pc = IF ai.calls < 3 THEN "call" ELSE "idle"

\* C19: generate_questions always terminates.  With valid inputs it calls
\* the provider at most 3 times, returns the validated questions at the first
\* attempt that succeeds without calling again, waits 1, 2 and 4 seconds
\* after the first, second and third failed attempt, and after the third
\* failure raises a ValidationError that carries the last underlying error;
\* every failure inside an attempt leads to the wait and the retry; invalid
\* inputs fail before any provider call.
C19_GenerationTerminates ==
    /\ []C19_Decision
    /\ [][C19_Effect]_vars
    /\ (ai.pc # "idle") ~> (ai.pc = "idle")

\* Three attempts failed, the last one on content that was not JSON; the
\* call slept 1, 2 and 4 seconds and raised with that error.
C19_Witness ==
    /\ ai.pc = "idle"
    /\ result.op = "generate_questions"
    /\ result.cls = ValidationError
    /\ ai.calls = 3
    /\ ai.waits = <<1, 2, 4>>
    /\ ai.errors[1] = "provider error"
    /\ result.msg = "Failed to generate questions: "
    /\ result.last_err = "Provider returned non-JSON content. Please try again."

QuestionById(question_id) == CHOOSE q \in questions : q.id = question_id

\* details holds one entry per question of the test, in ascending order, and
\* the entry of question q reports chosen[q.id] as the student's answer, the
\* question's correct index and whether the two are equal.
RoundTrip(test_id, chosen, details) ==
    /\ Len(details) = Cardinality(QuestionsOf(test_id))
    /\ {details[i].question_id : i \in 1..Len(details)} = {q.id : q \in QuestionsOf(test_id)}
    /\ \A i, j \in 1..Len(details) :
          i < j => QuestionById(details[i].question_id).order
                      <= QuestionById(details[j].question_id).order
    /\ \A i \in 1..Len(details) :
          LET q == QuestionById(details[i].question_id)
          IN  /\ details[i].student_answer = Some(chosen[q.id])
              /\ details[i].correct_answer = q.correct_answer
              /\ details[i].is_correct = (chosen[q.id] = q.correct_answer)

\* The questions of the attempt's test are those it answered
QuestionsUnchanged(a) == DOMAIN a.answers = {str(q.id) : q \in QuestionsOf(a.test_id)}

\* What submit_attempt stores is read back as it was submitted
C20_Submitted ==
    \A t \in TestIdInputs, u \in Callers, ans \in AnswersInputs, now \in Times :
        LET r == submit_attempt_result(t, u, ans, now)
        IN  r.cls = OK => RoundTrip(t, ans, detailed_results(r.value))

\* What get_attempt_results gives the owner of a stored attempt
C20_Read ==
    \A a \in attempts :
        QuestionsUnchanged(a) =>
            LET r == get_attempt_results_result(a.id, a.student_id)
            IN  /\ r.cls = OK
                /\ RoundTrip(a.test_id, [k \in {q.id : q \in QuestionsOf(a.test_id)} |->
                                            a.answers[str(k)]],
                             r.value.detailed_results)
                /\ (result.op = "get_attempt_results" /\ result.cls = OK
                    /\ result.value.attempt_id = a.id) => result = r

\* C20: for an attempt created by submit_attempt, while the questions of its
\* test are unchanged, get_attempt_results by the owner returns one entry
\* per question in ascending order, with student_answer the submitted index
\* (the string keys of the stored answers are converted back on read),
\* correct_answer the question's correct index and is_correct true exactly
\* when the two are equal.
C20_AnswersRoundTrip == C20_Submitted /\ C20_Read

\* The owner read the results of an attempt on a test of two questions, one
\* answered correctly and one not.
C20_Witness ==
    /\ result.op = "get_attempt_results"
    /\ result.cls = OK
    /\ \E a \in attempts :
          /\ a.id = result.value.attempt_id
          /\ QuestionsUnchanged(a)
    /\ Len(result.value.detailed_results) = 2
    /\ \E i, j \in 1..2 :
          /\ result.value.detailed_results[i].is_correct
          /\ ~result.value.detailed_results[j].is_correct

\* a = b as rational numbers
SameNumber(a, b) == a.num * b.den = b.num * a.den

\* the rational m is the mean of the scores of the attempts in rows, 0 when
\* there is none: m times the number of rows is the sum of the scores
IsMeanOf(m, rows) ==
    IF rows = {} THEN m.num = 0
    ELSE LET total == SumOfScores(rows)
         IN  m.num * total.den * Cardinality(rows) = total.num * m.den

C21_Decision ==
    \A u \in Callers, pre \in TestIdInputs, post \in TestIdInputs :
        LET r == calculate_improvement_result(u, pre, post)
            v == r.value
        IN  /\ r.cls = OK
            /\ IsMeanOf(v.pre_score, {a \in attempts : a.student_id = u /\ a.test_id = pre})
            /\ IsMeanOf(v.post_score, {a \in attempts : a.student_id = u /\ a.test_id = post})
            /\ v.improvement_abs.num * v.post_score.den * v.pre_score.den
                  = (v.post_score.num * v.pre_score.den - v.pre_score.num * v.post_score.den)
                        * v.improvement_abs.den
            /\ IF v.pre_score.num > 0
               THEN v.improvement_pct.num * v.improvement_abs.den * v.pre_score.num
                        = 100 * v.improvement_abs.num * v.pre_score.den * v.improvement_pct.den
               ELSE v.improvement_pct.num = 0
            /\ v.pre_score.den > 0 /\ v.post_score.den > 0
            /\ v.improvement_abs.den > 0 /\ v.improvement_pct.den > 0

C21_Effect == result'.op = "calculate_improvement" => UNCHANGED <<db, nextUserId>>

\* C21: calculate_improvement(student, pre, post) returns pre_score and
\* post_score as the mean of the scores of that student's attempts on the
\* respective test (0 without such an attempt; other students' attempts and
\* other tests are ignored), improvement_abs = post_score - pre_score, and
\* improvement_pct = 100 * improvement_abs / pre_score when pre_score > 0
\* and 0 when pre_score is 0; it changes no persisted state.
C21_ImprovementOfMeans == []C21_Decision /\ [][C21_Effect]_vars

\* The student went from a mean of 50 on one test to 100 on the other while
\* another user also has an attempt on the first test.
C21_Witness ==
    /\ result.op = "calculate_improvement"
    /\ result.value.pre_score = [num |-> 50, den |-> 1]
    /\ result.value.post_score = [num |-> 100, den |-> 1]
    /\ result.value.improvement_pct = [num |-> 100, den |-> 1]
    /\ \E a, b \in attempts : a.test_id = b.test_id /\ a.student_id # b.student_id

\* C22: when sanitize_string(s, max_length) returns, the result has no
\* leading or trailing whitespace, holds no ASCII control character and is at
\* most max_length long, so sanitizing the result again returns it
\* unchanged; it raises ValidationError when the cleaned text is longer than
\* max_length or the input is not a string.
C22_SanitizedIsClean ==
    result.op = "sanitize_string" =>
        IF result.cls = OK
        THEN LET v == result.value
             IN  /\ result.text # None
                 /\ v = <<>> \/ (v[1] \notin {" ", "\t"} /\ v[Len(v)] \notin {" ", "\t"})
                 /\ \A i \in 1..Len(v) : v[i] \notin {"\t", "NUL"}
                 /\ Len(v) <= result.max_length
                 /\ sanitize_string(v, result.max_length) = [ok |-> TRUE, val |-> v]
        ELSE /\ result.cls = ValidationError
             /\ \/ result.text = None
                \/ Len(RemoveControl(strip(Get(result.text)))) > result.max_length

\* C23: under interleaving of submit_attempt with add_question or a
\* question deletion on the same test, every attempt that gets persisted has
\* an answers key set equal to the set of questions its score was computed
\* over, and score = 100 * k / N over that set; no attempt is stored with
\* uncovered questions, stray answers or the score 0.0 of an empty test.
C23_AttemptCoversScoredQuestions ==
    (result.op = "submit_attempt" /\ result.cls = OK) =>
        LET a == result.value
            N == Cardinality(QuestionsOf(a.test_id))
            k == Cardinality({q \in QuestionsOf(a.test_id) :
                                /\ str(q.id) \in DOMAIN a.answers
                                /\ a.answers[str(q.id)] = q.correct_answer})
        IN  /\ N >= 1
            /\ DOMAIN a.answers = {str(q.id) : q \in QuestionsOf(a.test_id)}
            /\ a.score.num * N = 100 * k * a.score.den

\* C24: when two register_user calls with the same username (or the same
\* email) both pass the duplicate checks before either inserts, at most one
\* user row is created, and the call that loses fails with ValidationError
\* and leaves no partial state.
C24_LoserGetsValidationError ==
    /\ \A u1 \in users, u2 \in users :
          (u1.username = u2.username \/ u1.email = u2.email) => u1 = u2
    /\ Cardinality(users) = nextUserId - 1
    /\ (result.op = "register_user" /\ result.cls # OK) => result.cls = ValidationError

C25_Decision ==
    \A k \in DOMAIN session.buckets :
        /\ k \in {"login", "register"}
        /\ session.buckets[k].count >= 0
        /\ session.buckets[k].count <= LimitOf(k)
        /\ session.buckets[k].reset_at <= clock + 60

C25_Effect ==
    result'.op = "allow_action" /\ clock' = clock =>
        LET k == result'.key
            limit == Get(result'.limit_per_minute)
            live == k \in DOMAIN session.buckets /\ clock < session.buckets[k].reset_at
            before == IF live THEN session.buckets[k].count ELSE 0
        IN  /\ result'.cls = OK
            /\ result'.value = (before < limit)
            /\ DOMAIN session'.buckets = DOMAIN session.buckets \cup {k}
            /\ session'.buckets[k].count = IF result'.value THEN before + 1 ELSE before
            /\ session'.buckets[k].reset_at
                  = IF live THEN session.buckets[k].reset_at ELSE clock + 60
            /\ \A other \in DOMAIN session.buckets :
                  other # k => session'.buckets[other] = session.buckets[other]

\* C25: for each action key, allow_action returns True at most `limit` times
\* between the creation of the key's bucket and its reset_at 60 seconds
\* later, returns False, without raising, for every further call in that
\* window, and starts a fresh window with count 0 at the first call at or
\* after reset_at; a call for one key never changes the bucket of another.
C25_RateLimitPerWindow == []C25_Decision /\ [][C25_Effect]_vars

\* A registration above the limit was refused within the minute while the
\* login bucket holds its own count.
C25_Witness ==
    /\ result.op = "allow_action"
    /\ result.key = "register"
    /\ ~result.value
    /\ session.buckets["register"].count = RegisterLimit
    /\ "login" \in DOMAIN session.buckets
    /\ session.buckets["login"].count = 2

\* C29: a user cannot reset the rate-limit counters: across any sequence of
\* allow_action, SessionManager.login and SessionManager.logout in one
\* browser session, the number of calls allowed for a key within 60 seconds
\* of the first allowed call never exceeds the limit.
C29_LimitSurvivesLogout ==
    \A k \in DOMAIN allowed : allowed[k].n <= LimitOf(k)

\* C27: the stored score of an attempt stays consistent with its detailed
\* results: at any later time the number of entries of get_attempt_results
\* with is_correct = true, divided by the number of entries, times 100,
\* equals the stored score, also after questions were added to or deleted
\* from the test after the submission.
C27_ScoreMatchesDetails ==
    \A a \in attempts :
        LET details == detailed_results(a)
            right == {i \in 1..Len(details) : details[i].is_correct}
        IN  Len(details) > 0 => Percent(Cardinality(right), Len(details)) = a.score

\* C26: only the owning teacher adds questions to a test: across any
\* sequence of page visits in one logged-in session, step 2 of the Create
\* Test wizard and its add_question call operate on a test whose teacher_id
\* is the logged-in user, so no question is ever added to a test by a user
\* who does not own it.
C26_OnlyOwnerAddsQuestions ==
    [][\A q \in questions' \ questions :
          \E t \in tests : t.id = q.test_id /\ session.user_id = Some(t.teacher_id)]_vars

\* The test of the session's snapshot still has exactly the questions the
\* snapshot shows, and at least one
SnapshotCurrent ==
    LET current == {q.id : q \in QuestionsOf(Get(session.current_test_info).test_id)}
    IN  current # {} /\ current = SnapshotIds

C28_Effect ==
    result'.op = "submit_attempt" =>
        /\ session.current_test_info # None
        /\ IF SnapshotCurrent
           THEN /\ result'.cls = OK
                /\ attempts' = attempts \cup {result'.value}
                /\ result'.value \notin attempts
                /\ result'.value.test_id = Get(session.current_test_info).test_id
                /\ result'.value.student_id = Get(session.user_id)
                /\ DOMAIN result'.value.answers = {str(k) : k \in SnapshotIds}
                /\ session'.current_test_id = None
                /\ session'.current_test_info = None
           ELSE /\ result'.cls = ValidationError
                /\ result'.msg \in {"No questions in test", "All questions must be answered"}
                /\ UNCHANGED <<db, session>>

C30_SaveAllOrNothing ==
    result.op = "Save as Test" =>
        IF result.cls = OK
        THEN LET saved == QuestionCRUD_get_test_questions(result.test_id)
             IN  /\ Len(saved) = Len(result.questions)
                 /\ \A i \in 1..Len(saved) :
                       /\ saved[i].order = i - 1
                       /\ saved[i].correct_answer = result.questions[i].correct
                       /\ saved[i].difficulty = result.questions[i].difficulty
        ELSE "test_id" \in DOMAIN result =>
                /\ TestCRUD_get_by_id(result.test_id) = {}
                /\ QuestionsOf(result.test_id) = {}

====
